---- MODULE Spec2Model ----
(***************************************************************************)
(* A model of the smoothcomp scraper's extraction and reconciliation core: *)
(* host resolution (DetectEventSubdomain), the embedded-array scanner      *)
(* (extractEventsArray), event list extraction and persistence             *)
(* (ScrapeEvents), event athlete extraction (ScrapeEventAthletes) and the  *)
(* match-history statistics walk (fetchProfileEventStats).                 *)
(*                                                                         *)
(* Go strings are TLA+ strings; a byte of a string is a one-character      *)
(* string, read with SubSeq.  Each operation has its own specification     *)
(* (SpecHost, SpecArray, ...) over its own variables; the variables of the *)
(* other operations stay at their initial values.                          *)
(***************************************************************************)
EXTENDS Integers, Sequences, FiniteSets, TLC

VARIABLES
    \* DetectEventSubdomain
    hpc,        \* "idle" | "probing" | "done"
    hEventID,   \* the eventID argument
    hIdx,       \* index (1-based) of the next entry of subdomains
    hLog,       \* per loop iteration: what the iteration met (response or error)
    hProbed,    \* hosts a HEAD request was sent to, in order
    hResult,    \* the returned host ("" while running)
    \* extractEventsArray and the page body it is applied to
    aPhase,     \* "start" | "array" | "suffix" | "extracted"
    aBody,      \* the page body
    aDepth,     \* open arrays of the embedded array written so far
    aInStr,     \* the page's writer is inside a quoted string
    aOpen,      \* offset of the embedded array's "[" (-1: none yet)
    aEnd,       \* offset of the "]" that closes it (-1: not closed)
    aResult,    \* what extractEventsArray returned
    \* ScrapeEvents
    epc,        \* "idle" | "saving" | "done"
    eArgs,      \* [eventType, countryCode]
    ePage,      \* what the listing fetch returned
    eEvents,    \* the list ScrapeEventsByCountry returned
    eStrategy,  \* the strategy that returned it: "embedded" | "markup" | ""
    eIdx,       \* index (1-based) of the next event of the save loop
    eSaveCalls, \* the SaveEvent calls of this run: [event, err]
    eSaved,     \* savedCount
    eErr,       \* the error ScrapeEvents returned ("" is nil)
    eRuns,      \* ScrapeEvents calls so far
    eventsTable,\* the persisted events, in primary key order
    eventDetailsTable,  \* the persisted event details
    jobsTable,  \* the persisted scrape jobs
    \* ScrapeEventAthletes
    ppc,        \* "idle" | "saving" | "done"
    pArgs,      \* [eventID, eventName, eventURL]
    pAPIURL,    \* the participants endpoint the POST went to
    pResp,      \* what the POST returned
    pTotalRegs, \* totalRegistrations
    pAthletes,  \* the athletes kept by the extraction loop
    pIdx,       \* index (1-based) of the next athlete of the save loop
    pSaveCalls, \* the saveAthleteFromEvent calls of this run: [data, err]
    pSaved,     \* savedCount
    pErr,       \* the error ScrapeEventAthletes returned ("" is nil)
    athletesTable,      \* the persisted athletes, in primary key order
    registrationsTable, \* the persisted event registrations
    academiesTable,     \* the persisted academies
    \* fetchProfileEventStats
    wpc,        \* "idle" | "walking" | "done"
    wExternalID,\* the externalID argument
    wUrl,       \* url of the next page to fetch
    wStats,     \* the running profileStats
    wMatches,   \* every match handed to applyEventMatchStats, in order
    wErr,       \* the error fetchProfileEventStats returned ("" is nil)
    \* fillTotalsFromBreakdown and mergeProfileStatsFromEvents on drawn inputs
    cpc,        \* "idle" | "drawn"
    cIn,        \* the AthleteProfileData drawn
    cStats,     \* the profileStats drawn
    cOut,       \* the AthleteProfileData after the applications so far
    cPrev,      \* the AthleteProfileData before the last application
    cOps,       \* the applications so far: "fill" | "merge"
    \* ScrapeAthleteProfile
    qpc,        \* "idle" | "legend" | "labels" | "fights" | "fill" | "walk" | "update"
    qID,        \* the resolved externalID
    qPage,      \* the profile page fetched
    qData,      \* the AthleteProfileData built so far
    qPrev,      \* the AthleteProfileData before the last step
    qStep,      \* the last step taken
    qBefore,    \* the athlete's persisted statistics before the last write
    qErr,       \* the error ScrapeAthleteProfile returned ("" is nil)
    qRuns,      \* ScrapeAthleteProfile calls so far
    qWalk,      \* the error, and the totals returned with it, of the call's failed walk
    \* Sequences of upsert calls
    uN,         \* upsert calls so far
    uLast,      \* the last call: [op, rec, eventID, fault, err]
    uPrev,      \* the call before it
    uBefore,    \* the store before the last call
    \* Two goroutines running upserts at the same time
    kpc,        \* per goroutine: the statement it is about to run ("idle": none)
    kCall,      \* per goroutine: its call, [op, rec]
    kSeen,      \* per goroutine: the row its lookup loaded (NoRow: none)
    kTx,        \* per goroutine: the tables as its open transaction wrote them
    kLock,      \* per goroutine: the database lock its connection holds
    kErr,       \* per goroutine: the error its last call returned
    kStarted,   \* calls started so far
    kSerial,    \* the store had the successful calls run one after another
    \* The batch operations: ScrapeEvents, ScrapeAcademies, ScrapeEventAthletes,
    \* ScrapeAthleteProfiles
    bpc,        \* "idle" | "loop" | "done"
    bOp,        \* the batch operation running ("" when idle)
    bCountries, \* ScrapeAcademies: what the listing of each country not yet reached returns
    bItems,     \* the items of the loop running
    bIdx,       \* index (1-based) of the next item of bItems
    bCount,     \* savedCount / itemsScraped / scraped
    bLog,       \* the items handed to the per-item operation so far: [item, err]
    bAll,       \* the items the batch has to process, over the lists fetched so far
    bErr,       \* the error the batch returned ("" is nil)
    bRuns,      \* batches started so far
    \* The requests of one operation: ScrapeAthleteProfile, ScrapeEventsByCountry,
    \* ScrapeEventAthletes, FetchEventDetails
    fOp,        \* the operation that ran last ("" before the first)
    fLog,       \* the requests it sent, in order: [what, url, failed]
    fErr,       \* the error it returned ("" is nil)
    fCalls,     \* operations run so far
    \* The scheduler: one goroutine per cron trigger runs runScrapingJob
    spc,        \* per trigger: "idle" | "lock" | "read" | "branch" | "run" | "defer" | "skipped" | "done"
    sSeen,      \* per trigger: the value of isRunning its test read
    sResult,    \* per trigger: what ScrapeAll returned ("" is nil, also before it returns)
    sIsRunning, \* Scheduler.isRunning
    sMu,        \* the trigger holding Scheduler.mu (0: nobody)
    clock       \* time.Now(), at the resolution of one persistence call

hostVars == <<hpc, hEventID, hIdx, hLog, hProbed, hResult>>
arrayVars == <<aPhase, aBody, aDepth, aInStr, aOpen, aEnd, aResult>>

eventVars == <<epc, eArgs, ePage, eEvents, eStrategy, eIdx, eSaveCalls, eSaved,
               eErr, eRuns, jobsTable>>

athleteVars == <<ppc, pArgs, pAPIURL, pResp, pTotalRegs, pAthletes, pIdx,
                 pSaveCalls, pSaved, pErr>>

walkVars == <<wpc, wExternalID, wUrl, wStats, wMatches, wErr>>

reconcileVars == <<cpc, cIn, cStats, cOut, cPrev, cOps>>

profileVars == <<qpc, qID, qPage, qData, qPrev, qStep, qBefore, qErr, qRuns, qWalk>>

upsertVars == <<uN, uLast, uPrev, uBefore>>

concurrentVars == <<kpc, kCall, kSeen, kTx, kLock, kErr, kStarted, kSerial>>

batchVars == <<bpc, bOp, bCountries, bItems, bIdx, bCount, bLog, bAll, bErr, bRuns>>

fetchVars == <<fOp, fLog, fErr, fCalls>>

schedVars == <<spc, sSeen, sResult, sIsRunning, sMu>>

\* The persistent store
storeVars == <<eventsTable, eventDetailsTable, athletesTable, registrationsTable,
               academiesTable>>

vars == <<hostVars, arrayVars, eventVars, athleteVars, walkVars, reconcileVars,
          profileVars, upsertVars, concurrentVars, batchVars, fetchVars, schedVars, storeVars, clock>>

\* What an action of one operation leaves alone: the other operations' state
\* (the store and the clock are named by the operations that persist)
HostFrame ==
    UNCHANGED <<arrayVars, eventVars, athleteVars, walkVars, reconcileVars,
                profileVars, upsertVars, concurrentVars, batchVars, fetchVars, schedVars, storeVars, clock>>
ArrayFrame ==
    UNCHANGED <<hostVars, eventVars, athleteVars, walkVars, reconcileVars,
                profileVars, upsertVars, concurrentVars, batchVars, fetchVars, schedVars, storeVars, clock>>
EventFrame ==
    UNCHANGED <<hostVars, arrayVars, athleteVars, walkVars, reconcileVars,
                profileVars, upsertVars, concurrentVars, batchVars, fetchVars, schedVars, eventDetailsTable,
                athletesTable, registrationsTable, academiesTable>>
AthleteFrame ==
    UNCHANGED <<hostVars, arrayVars, eventVars, walkVars, reconcileVars,
                profileVars, upsertVars, concurrentVars, batchVars, fetchVars, schedVars, eventsTable,
                eventDetailsTable>>
WalkFrame ==
    UNCHANGED <<hostVars, arrayVars, eventVars, athleteVars, reconcileVars,
                profileVars, upsertVars, concurrentVars, batchVars, fetchVars, schedVars, storeVars, clock>>
ReconcileFrame ==
    UNCHANGED <<hostVars, arrayVars, eventVars, athleteVars, walkVars,
                profileVars, upsertVars, concurrentVars, batchVars, fetchVars, schedVars, storeVars, clock>>
ProfileFrame ==
    UNCHANGED <<hostVars, arrayVars, eventVars, athleteVars, walkVars,
                reconcileVars, upsertVars, concurrentVars, batchVars, fetchVars, schedVars, eventsTable,
                eventDetailsTable, academiesTable>>
UpsertFrame ==
    UNCHANGED <<hostVars, arrayVars, eventVars, athleteVars, walkVars,
                reconcileVars, profileVars, concurrentVars, batchVars, fetchVars, schedVars>>
ConcurrentFrame ==
    UNCHANGED <<hostVars, arrayVars, eventVars, athleteVars, walkVars,
                reconcileVars, profileVars, upsertVars, batchVars, fetchVars, schedVars, eventDetailsTable, clock>>
BatchFrame ==
    UNCHANGED <<hostVars, arrayVars, eventVars, athleteVars, walkVars, reconcileVars, profileVars, upsertVars, concurrentVars, fetchVars, schedVars, eventDetailsTable>>
FetchFrame ==
    UNCHANGED <<hostVars, arrayVars, eventVars, athleteVars, walkVars, reconcileVars, profileVars, upsertVars, concurrentVars, batchVars, schedVars, eventsTable, eventDetailsTable, academiesTable>>
SchedFrame ==
    UNCHANGED <<hostVars, arrayVars, eventVars, athleteVars, walkVars, reconcileVars, profileVars, upsertVars, concurrentVars, batchVars, fetchVars, storeVars, clock>>

(***************************************************************************)
(* String helpers (Go's strings package, on TLA+ strings).                 *)
(***************************************************************************)

\* s[i] for a 0-based byte offset i
At(s, i) == SubSeq(s, i + 1, i + 1)

\* s[lo:hi] for 0-based offsets
Slice(s, lo, hi) == SubSeq(s, lo + 1, hi)

HasPrefix(s, p) == Len(s) >= Len(p) /\ Slice(s, 0, Len(p)) = p

HasSuffix(s, p) == Len(s) >= Len(p) /\ Slice(s, Len(s) - Len(p), Len(s)) = p

\* strings.Contains
Contains(s, sub) ==
    \E i \in 0..(Len(s) - Len(sub)) : Slice(s, i, i + Len(sub)) = sub


IsSpace(c) == c \in {" ", "\t", "\n", "\r"}

RECURSIVE TrimLeftSpace(_)
TrimLeftSpace(s) ==
    IF s # "" /\ IsSpace(Head(s)) THEN TrimLeftSpace(Tail(s)) ELSE s

RECURSIVE TrimRightSpace(_)
TrimRightSpace(s) ==
    IF s # "" /\ IsSpace(At(s, Len(s) - 1))
    THEN TrimRightSpace(Slice(s, 0, Len(s) - 1)) ELSE s

\* strings.TrimSpace
TrimSpace(s) == TrimRightSpace(TrimLeftSpace(s))

\* strings.TrimRight(s, cutset) for a one-character cutset
RECURSIVE TrimRight(_, _)
TrimRight(s, c) ==
    IF s # "" /\ At(s, Len(s) - 1) = c THEN TrimRight(Slice(s, 0, Len(s) - 1), c) ELSE s

RECURSIVE TrimLeft(_, _)
TrimLeft(s, c) == IF s # "" /\ Head(s) = c THEN TrimLeft(Tail(s), c) ELSE s

\* strings.Trim(s, cutset) for a one-character cutset
Trim(s, c) == TrimRight(TrimLeft(s, c), c)

LowerLetters == "abcdefghijklmnopqrstuvwxyz"
UpperLetters == "ABCDEFGHIJKLMNOPQRSTUVWXYZ"

IsLowerLetter(c) == \E i \in 0..25 : At(LowerLetters, i) = c

\* The upper-case byte of each lower-case ASCII letter, and the converse
UpperOf ==
    [c \in {At(LowerLetters, i) : i \in 0..25} |->
        At(UpperLetters, CHOOSE i \in 0..25 : At(LowerLetters, i) = c)]

LowerOf ==
    [c \in {At(UpperLetters, i) : i \in 0..25} |->
        At(LowerLetters, CHOOSE i \in 0..25 : At(UpperLetters, i) = c)]

ToUpperChar(c) == IF c \in DOMAIN UpperOf THEN UpperOf[c] ELSE c

ToLowerChar(c) == IF c \in DOMAIN LowerOf THEN LowerOf[c] ELSE c

\* strings.ToUpper
RECURSIVE ToUpper(_)
ToUpper(s) == IF s = "" THEN "" ELSE ToUpperChar(Head(s)) \o ToUpper(Tail(s))

\* strings.ToLower
RECURSIVE ToLower(_)
ToLower(s) == IF s = "" THEN "" ELSE ToLowerChar(Head(s)) \o ToLower(Tail(s))

\* strings.EqualFold
EqualFold(a, b) == ToLower(a) = ToLower(b)

Digits == "0123456789"

\* strconv.Itoa / strconv.FormatInt(n, 10) / fmt.Sprintf("%d", n)
RECURSIVE ItoaNat(_)
ItoaNat(n) == IF n < 10 THEN At(Digits, n) ELSE ItoaNat(n \div 10) \o At(Digits, n % 10)

Itoa(n) == IF n < 0 THEN "-" \o ItoaNat(0 - n) ELSE ItoaNat(n)

\* strings.Join
RECURSIVE Join(_, _)
Join(parts, sep) ==
    IF Len(parts) = 0 THEN ""
    ELSE IF Len(parts) = 1 THEN parts[1]
    ELSE parts[1] \o sep \o Join(Tail(parts), sep)

\* offset of the last occurrence of the byte c in s, -1 if none
LastIndexByte(s, c) ==
    LET hits == {i \in 0..(Len(s) - 1) : At(s, i) = c}
    IN IF hits = {} THEN -1 ELSE CHOOSE i \in hits : \A j \in hits : j <= i

\* ExtractIDFromURL: the last part of strings.Split(url, "/")
ExtractIDFromURL(url) == Slice(url, LastIndexByte(url, "/") + 1, Len(url))

(***************************************************************************)
(* Host Resolver: DetectEventSubdomain                                     *)
(***************************************************************************)

subdomains ==
    <<"", "adcc", "ibjjf", "uaejjf", "ajp", "sjjif", "newbreed", "grappling">>

PrimaryDomain == "smoothcomp.com"

\* baseURL of one loop iteration
BaseURLOf(subdomain) ==
    IF subdomain = "" THEN PrimaryDomain ELSE subdomain \o ".smoothcomp.com"

EventURLOf(baseURL, eventID) == "https://" \o baseURL \o "/en/event/" \o eventID

StatusOK == 200
StatusMovedPermanently == 301
StatusFound == 302
StatusNotFound == 404

\* Event identifiers the caller passes.  http.NewRequest rejects the URL built
\* from "%zz" (invalid URL escape), for every candidate alike.
EventIDs == {"1", "%zz"}

NewRequestFails(eventID) == Contains(eventID, "%zz")

\* What a HEAD probe of baseURL can come back with: a transport error, or a
\* status with a Location header.
ProbeOutcomes(baseURL, eventID) ==
    {[kind |-> "transport_error", status |-> 0, location |-> ""]}
    \cup {[kind |-> "response", status |-> StatusOK, location |-> ""],
          [kind |-> "response", status |-> StatusNotFound, location |-> ""],
          \* a redirect that stays on the probed host
          [kind |-> "response", status |-> StatusMovedPermanently,
           location |-> EventURLOf(baseURL, eventID)],
          \* a redirect to the adcc tenant
          [kind |-> "response", status |-> StatusFound,
           location |-> "https://adcc.smoothcomp.com"],
          \* a scheme-less redirect target on the probed host
          [kind |-> "response", status |-> StatusFound,
           location |-> baseURL \o "/en/event/" \o eventID]}

containsSubstring(str, substr) ==
    Len(str) >= Len(substr)
    /\ (str = substr
        \/ (Len(str) > Len(substr)
            /\ (Slice(str, 0, Len(substr) + 1) = substr \o "/"
                \/ Slice(str, Len(str) - Len(substr), Len(str)) = substr)))

\* The loop body's verdict on a response (handler.go 451-470)
ProbeAccepted(resp, baseURL) ==
    /\ resp.kind = "response"
    /\ \/ resp.status = StatusOK
       \/ /\ resp.status \in {StatusMovedPermanently, StatusFound}
          /\ resp.location # ""
          /\ containsSubstring(resp.location, baseURL)

InitHost ==
    /\ hpc = "idle"
    /\ hEventID = ""
    /\ hIdx = 1
    /\ hLog = <<>>
    /\ hProbed = <<>>
    /\ hResult = ""

\* The call: the candidate list and the client are set up
DetectStart(eventID) ==
    /\ hpc = "idle"
    /\ hpc' = "probing"
    /\ hEventID' = eventID
    /\ hIdx' = 1
    /\ hLog' = <<>>
    /\ hProbed' = <<>>
    /\ hResult' = ""
    /\ HostFrame

\* One iteration of the loop whose request cannot be built: continue
DetectSkip ==
    /\ hpc = "probing"
    /\ hIdx <= Len(subdomains)
    /\ NewRequestFails(hEventID)
    /\ hLog' = Append(hLog, [kind |-> "no_request", status |-> 0, location |-> ""])
    /\ hIdx' = hIdx + 1
    /\ UNCHANGED <<hpc, hEventID, hProbed, hResult>>
    /\ HostFrame

\* DetectProbe without the early return: an accepted candidate is remembered
\* but the loop goes on (mutant of DetectProbe)
DetectProbe_NoEarlyReturn ==
    /\ hpc = "probing"
    /\ hIdx <= Len(subdomains)
    /\ ~NewRequestFails(hEventID)
    /\ LET baseURL == BaseURLOf(subdomains[hIdx]) IN
       \E resp \in ProbeOutcomes(baseURL, hEventID) :
          /\ hProbed' = Append(hProbed, baseURL)
          /\ hLog' = Append(hLog, resp)
          /\ hpc' = "probing"
          /\ hIdx' = hIdx + 1
          /\ hResult' = IF ProbeAccepted(resp, baseURL) THEN baseURL ELSE hResult
    /\ UNCHANGED hEventID
    /\ HostFrame

\* DetectProbe that gives up on a transport error (mutant of DetectProbe)
DetectProbe_AbortOnError ==
    /\ hpc = "probing"
    /\ hIdx <= Len(subdomains)
    /\ ~NewRequestFails(hEventID)
    /\ LET baseURL == BaseURLOf(subdomains[hIdx]) IN
       \E resp \in ProbeOutcomes(baseURL, hEventID) :
          /\ hProbed' = Append(hProbed, baseURL)
          /\ hLog' = Append(hLog, resp)
          /\ IF ProbeAccepted(resp, baseURL)
             THEN /\ hpc' = "done"
                  /\ hResult' = baseURL
                  /\ hIdx' = hIdx
             ELSE IF resp.kind = "transport_error"
             THEN /\ hpc' = "done"
                  /\ hResult' = "smoothcomp.com"
                  /\ hIdx' = hIdx
             ELSE /\ hpc' = "probing"
                  /\ hResult' = hResult
                  /\ hIdx' = hIdx + 1
    /\ UNCHANGED hEventID
    /\ HostFrame

\* One iteration of the loop that sends the HEAD request
DetectProbe ==
    /\ hpc = "probing"
    /\ hIdx <= Len(subdomains)
    /\ ~NewRequestFails(hEventID)
    /\ LET baseURL == BaseURLOf(subdomains[hIdx]) IN
       \E resp \in ProbeOutcomes(baseURL, hEventID) :
          /\ hProbed' = Append(hProbed, baseURL)
          /\ hLog' = Append(hLog, resp)
          /\ IF ProbeAccepted(resp, baseURL)
             THEN /\ hpc' = "done"
                  /\ hResult' = baseURL
                  /\ hIdx' = hIdx
             ELSE /\ hpc' = "probing"
                  /\ hResult' = hResult
                  /\ hIdx' = hIdx + 1
    /\ UNCHANGED hEventID
    /\ HostFrame

\* The list is exhausted: fall back to the primary domain
DetectFallback ==
    /\ hpc = "probing"
    /\ hIdx > Len(subdomains)
    /\ hpc' = "done"
    /\ hResult' = "smoothcomp.com"
    /\ UNCHANGED <<hEventID, hIdx, hLog, hProbed>>
    /\ HostFrame

\* The caller takes the result; the resolver keeps no state between calls
DetectReturn ==
    /\ hpc = "done"
    /\ hpc' = "idle"
    /\ hEventID' = ""
    /\ hIdx' = 1
    /\ hLog' = <<>>
    /\ hProbed' = <<>>
    /\ hResult' = ""
    /\ HostFrame

NextHost ==
    \/ \E eventID \in EventIDs : DetectStart(eventID)
    \/ DetectSkip
    \/ DetectProbe
    \/ DetectFallback
    \/ DetectReturn


(***************************************************************************)
(* Structured Extractor: extractEventsArray                                *)
(***************************************************************************)

\* bytes.Index: offset of the first occurrence of sep in s, -1 if none
bytesIndex(s, sep) ==
    LET hits == {i \in 0..(Len(s) - Len(sep)) : Slice(s, i, i + Len(sep)) = sep}
    IN IF hits = {} THEN -1 ELSE CHOOSE i \in hits : \A j \in hits : i <= j

\* bytes.IndexByte
bytesIndexByte(s, c) == bytesIndex(s, c)

\* The scanner without the escape flag: a backslash is an ordinary string
\* byte (mutant of scanArray)
RECURSIVE scanArray_NoEscape(_, _, _, _, _)
scanArray_NoEscape(body, i, depth, inString, escape) ==
    IF i >= Len(body) THEN -1
    ELSE LET ch == At(body, i) IN
         IF inString
         THEN IF ch = "\""
              THEN scanArray_NoEscape(body, i + 1, depth, FALSE, FALSE)
              ELSE scanArray_NoEscape(body, i + 1, depth, TRUE, FALSE)
         ELSE IF ch = "\"" THEN scanArray_NoEscape(body, i + 1, depth, TRUE, FALSE)
         ELSE IF ch = "[" THEN scanArray_NoEscape(body, i + 1, depth + 1, FALSE, FALSE)
         ELSE IF ch = "]"
              THEN IF depth - 1 = 0 THEN i
                   ELSE scanArray_NoEscape(body, i + 1, depth - 1, FALSE, FALSE)
         ELSE scanArray_NoEscape(body, i + 1, depth, FALSE, FALSE)

\* The scanning loop of extractEventsArray from offset i on: the offset of
\* the closing bracket (end), -1 if the body ends first
RECURSIVE scanArray(_, _, _, _, _)
scanArray(body, i, depth, inString, escape) ==
    IF i >= Len(body) THEN -1
    ELSE LET ch == At(body, i) IN
         IF inString
         THEN IF escape THEN scanArray(body, i + 1, depth, TRUE, FALSE)
              ELSE IF ch = "\\" THEN scanArray(body, i + 1, depth, TRUE, TRUE)
              ELSE IF ch = "\"" THEN scanArray(body, i + 1, depth, FALSE, FALSE)
              ELSE scanArray(body, i + 1, depth, TRUE, FALSE)
         ELSE IF ch = "\"" THEN scanArray(body, i + 1, depth, TRUE, FALSE)
         ELSE IF ch = "[" THEN scanArray(body, i + 1, depth + 1, FALSE, FALSE)
         ELSE IF ch = "]"
              THEN IF depth - 1 = 0 THEN i
                   ELSE scanArray(body, i + 1, depth - 1, FALSE, FALSE)
         ELSE scanArray(body, i + 1, depth, FALSE, FALSE)

ArrayErr(msg) == [err |-> msg, bytes |-> ""]

extractEventsArray(body) ==
    LET start == bytesIndex(body, "var events") IN
    IF start < 0 THEN ArrayErr("embedded events not found")
    ELSE LET rel == bytesIndexByte(Slice(body, start, Len(body)), "[") IN
         IF rel < 0 THEN ArrayErr("embedded events array start not found")
         ELSE LET open == rel + start
                  end == scanArray(body, open, 0, FALSE, FALSE)
              IN IF end = -1 THEN ArrayErr("embedded events array end not found")
                 ELSE [err |-> "", bytes |-> Slice(body, open, end + 1)]

\* Bounds on the embedded array and on what follows it in the page
MaxArrayLen == 7
MaxSuffixLen == 2

\* How a page begins: up to and including the marker's statement
PageStarts ==
    {"var events = ",
     "x = [\"]\"]; var events=",
     "var evts = "}

NoArrayResult == [err |-> "not called", bytes |-> ""]

InitArray ==
    /\ aPhase = "start"
    /\ aBody = ""
    /\ aDepth = 0
    /\ aInStr = FALSE
    /\ aOpen = -1
    /\ aEnd = -1
    /\ aResult = NoArrayResult

ArrayRoom(n) == aOpen < 0 \/ Len(aBody) + n - aOpen <= MaxArrayLen

\* The page up to the marker is written
PageStart(pre) ==
    /\ aPhase = "start"
    /\ aPhase' = "array"
    /\ aBody' = pre
    /\ UNCHANGED <<aDepth, aInStr, aOpen, aEnd, aResult>>
    /\ ArrayFrame

\* The page's writer opens an array
PageOpen ==
    /\ aPhase = "array" /\ ~aInStr /\ ArrayRoom(1)
    /\ aBody' = aBody \o "["
    /\ aDepth' = aDepth + 1
    /\ aOpen' = IF aOpen < 0 THEN Len(aBody) ELSE aOpen
    /\ UNCHANGED <<aPhase, aInStr, aEnd, aResult>>
    /\ ArrayFrame

\* ... closes an array; closing the outermost one ends the embedded array
PageClose ==
    /\ aPhase = "array" /\ ~aInStr /\ aDepth > 0 /\ ArrayRoom(1)
    /\ aBody' = aBody \o "]"
    /\ aDepth' = aDepth - 1
    /\ aEnd' = IF aDepth = 1 THEN Len(aBody) ELSE aEnd
    /\ aPhase' = IF aDepth = 1 THEN "suffix" ELSE aPhase
    /\ UNCHANGED <<aInStr, aOpen, aResult>>
    /\ ArrayFrame

\* ... writes a byte of an element outside any string
PageAtom(c) ==
    /\ aPhase = "array" /\ ~aInStr /\ aDepth > 0 /\ ArrayRoom(1)
    /\ aBody' = aBody \o c
    /\ UNCHANGED <<aPhase, aDepth, aInStr, aOpen, aEnd, aResult>>
    /\ ArrayFrame

\* ... opens or closes a quoted string
PageQuote ==
    /\ aPhase = "array" /\ aDepth > 0 /\ ArrayRoom(1)
    /\ aBody' = aBody \o "\""
    /\ aInStr' = ~aInStr
    /\ UNCHANGED <<aPhase, aDepth, aOpen, aEnd, aResult>>
    /\ ArrayFrame

\* ... writes a plain byte of a string: brackets are plain bytes there
PageStrChar(c) ==
    /\ aPhase = "array" /\ aInStr /\ ArrayRoom(1)
    /\ aBody' = aBody \o c
    /\ UNCHANGED <<aPhase, aDepth, aInStr, aOpen, aEnd, aResult>>
    /\ ArrayFrame

\* ... writes an escaped byte of a string
PageStrEscape(c) ==
    /\ aPhase = "array" /\ aInStr /\ ArrayRoom(2)
    /\ aBody' = aBody \o "\\" \o c
    /\ UNCHANGED <<aPhase, aDepth, aInStr, aOpen, aEnd, aResult>>
    /\ ArrayFrame

\* ... writes what follows the embedded array
PageSuffix(c) ==
    /\ aPhase = "suffix"
    /\ Len(aBody) - (aEnd + 1) < MaxSuffixLen
    /\ aBody' = aBody \o c
    /\ UNCHANGED <<aPhase, aDepth, aInStr, aOpen, aEnd, aResult>>
    /\ ArrayFrame

\* extractEventsArray is called on the page (complete or cut short)
Extract ==
    /\ aPhase \in {"array", "suffix"}
    /\ aPhase' = "extracted"
    /\ aResult' = extractEventsArray(aBody)
    /\ UNCHANGED <<aBody, aDepth, aInStr, aOpen, aEnd>>
    /\ ArrayFrame

\* the next page
ExtractReturn ==
    /\ aPhase = "extracted"
    /\ aPhase' = "start"
    /\ aBody' = ""
    /\ aDepth' = 0
    /\ aInStr' = FALSE
    /\ aOpen' = -1
    /\ aEnd' = -1
    /\ aResult' = NoArrayResult
    /\ ArrayFrame

NextArray ==
    \/ \E pre \in PageStarts : PageStart(pre)
    \/ PageOpen
    \/ PageClose
    \/ \E c \in {"1", ","} : PageAtom(c)
    \/ PageQuote
    \/ \E c \in {"a", "[", "]"} : PageStrChar(c)
    \/ \E c \in {"\"", "\\"} : PageStrEscape(c)
    \/ \E c \in {"]", "\"", "[", ";"} : PageSuffix(c)
    \/ Extract
    \/ ExtractReturn

(***************************************************************************)
(* Structured Extractor: event list extraction (ScrapeEventsByCountry)     *)
(***************************************************************************)

\* config.Scraper.BaseURL (SMOOTHCOMP_BASE_URL)
ConfigBaseURL == "https://smoothcomp.com"

NoTime == 0

\* A models.Event with every column empty
EmptyEvent ==
    [ID |-> 0, ExternalID |-> "", Name |-> "", EventURL |-> "", ImageURL |-> "",
     City |-> "", Country |-> "", CountryCode |-> "", DateText |-> "",
     DaysText |-> "", EventType |-> "", Section |-> "",
     ScrapedAt |-> NoTime, CreatedAt |-> NoTime, UpdatedAt |-> NoTime]

normalizeEventURL(baseURL, rawHref) ==
    LET href == TrimSpace(rawHref) IN
    IF href = "" THEN ""
    ELSE IF HasPrefix(href, "http://") \/ HasPrefix(href, "https://") THEN href
    ELSE LET base == TrimRight(baseURL, "/") IN
         IF HasPrefix(href, "/") THEN base \o href ELSE base \o "/" \o href

\* regexp flag-icon-([a-z]{2}) on the card's .flag-icon class attribute
extractEventCountryCode(card) ==
    LET cls == card.flagClass
        hits == {i \in 0..(Len(cls) - 12) :
                    /\ Slice(cls, i, i + 10) = "flag-icon-"
                    /\ IsLowerLetter(At(cls, i + 10))
                    /\ IsLowerLetter(At(cls, i + 11))}
    IN IF hits = {} THEN ""
       ELSE LET i == CHOOSE h \in hits : \A j \in hits : h <= j
            IN ToUpper(Slice(cls, i + 10, i + 12))

\* the texts of the card's ".location span" elements that are kept
RECURSIVE locationParts(_)
locationParts(spans) ==
    IF Len(spans) = 0 THEN <<>>
    ELSE LET text == Trim(TrimSpace(Head(spans)), ",") IN
         IF text = "" \/ text = "," THEN locationParts(Tail(spans))
         ELSE <<text>> \o locationParts(Tail(spans))

\* extractEventLocation: [city, country]
extractEventLocation(card) ==
    LET parts == locationParts(card.location) IN
    IF Len(parts) = 0 THEN [city |-> "", country |-> ""]
    ELSE IF Len(parts) = 1 THEN [city |-> "", country |-> parts[1]]
    ELSE [city |-> Join(SubSeq(parts, 1, Len(parts) - 1), ", "),
          country |-> parts[Len(parts)]]

\* The acceptance test of an embedded record without the URL check (mutant
\* of scriptEventAccepted)
scriptEventAccepted_NameOnly(event) == event.Name # ""

\* The acceptance test of an embedded record (part_000 581)
scriptEventAccepted(event) == event.EventURL # "" /\ event.Name # ""

\* The acceptance test of a markup card's record (part_000 418)
cardEventAccepted(event) == event.EventURL # "" /\ event.Name # ""

\* The models.Event built from one decoded embeddedEvent
scriptEvent(item, eventType, now) ==
    LET image == TrimSpace(item.cover_image) IN
    [EmptyEvent EXCEPT
        !.ExternalID = Itoa(item.id),
        !.Name = TrimSpace(item.title),
        !.EventURL = TrimSpace(item.url),
        !.ImageURL = IF image = "" THEN TrimSpace(item.cover_image_fallback) ELSE image,
        !.City = TrimSpace(item.location_city),
        !.Country = TrimSpace(item.location_country_human),
        !.CountryCode = ToUpper(TrimSpace(item.location_country)),
        !.DateText = TrimSpace(item.eventPeriod),
        !.DaysText = IF item.days_to_start.null THEN ""
                     ELSE IF item.days_to_start.value >= 0
                          THEN Itoa(item.days_to_start.value) \o " days left"
                          ELSE Itoa(0 - item.days_to_start.value) \o " days ago",
        !.EventType = eventType,
        !.ScrapedAt = now]

RECURSIVE scriptEvents(_, _, _)
scriptEvents(payload, eventType, now) ==
    IF Len(payload) = 0 THEN <<>>
    ELSE LET event == scriptEvent(Head(payload), eventType, now) IN
         (IF scriptEventAccepted(event) THEN <<event>> ELSE <<>>)
         \o scriptEvents(Tail(payload), eventType, now)

\* parseEventsFromScript: [events, err].  script.body is the page body,
\* script.decoded what json.Unmarshal makes of the extracted bytes.
parseEventsFromScript(script, eventType, now) ==
    LET arr == extractEventsArray(script.body) IN
    IF arr.err # "" THEN [events |-> <<>>, err |-> arr.err]
    ELSE IF ~script.decoded.ok
         THEN [events |-> <<>>, err |-> "error decoding embedded events"]
    ELSE [events |-> scriptEvents(script.decoded.items, eventType, now), err |-> ""]

\* The models.Event built from one .event-card element
cardEvent(card, eventType, countryCode, now) ==
    LET eventURL == normalizeEventURL(ConfigBaseURL,
                        IF card.titleHref = "" THEN card.imageHref ELSE card.titleHref)
        code == extractEventCountryCode(card)
        loc == extractEventLocation(card)
    IN [EmptyEvent EXCEPT
        !.EventType = eventType,
        !.ScrapedAt = now,
        !.Section = TrimSpace(card.section),
        !.Name = TrimSpace(card.title),
        !.EventURL = eventURL,
        !.ExternalID = ExtractIDFromURL(eventURL),
        !.ImageURL = TrimSpace(card.imgSrc),
        !.CountryCode = IF code = "" THEN ToUpper(TrimSpace(countryCode)) ELSE code,
        !.City = loc.city,
        !.Country = loc.country,
        !.DateText = TrimSpace(card.date),
        !.DaysText = TrimSpace(card.days)]

RECURSIVE cardEvents(_, _, _, _)
cardEvents(cards, eventType, countryCode, now) ==
    IF Len(cards) = 0 THEN <<>>
    ELSE LET event == cardEvent(Head(cards), eventType, countryCode, now) IN
         (IF cardEventAccepted(event) THEN <<event>> ELSE <<>>)
         \o cardEvents(Tail(cards), eventType, countryCode, now)

\* buildEventsURL: [url, err]
buildEventsURL(eventType, countryCode) ==
    IF eventType # "past" /\ eventType # "upcoming"
    THEN [url |-> "", err |-> "invalid event type: " \o eventType]
    ELSE [url |-> TrimRight(ConfigBaseURL, "/") \o "/en/events/" \o eventType
                  \o (IF countryCode # "" THEN "?countries=" \o ToUpper(countryCode)
                      ELSE ""),
          err |-> ""]

StatusInternalServerError == 500

\* ScrapeEventsByCountry that appends the markup cards to the embedded
\* records (mutant of ScrapeEventsByCountry)
ScrapeEventsByCountry_Merged(eventType, countryCode, page, now) ==
    LET built == buildEventsURL(eventType, countryCode) IN
    IF built.err # "" THEN [events |-> <<>>, err |-> built.err, strategy |-> ""]
    ELSE IF page.kind = "transport_error"
    THEN [events |-> <<>>, err |-> "error fetching events", strategy |-> ""]
    ELSE IF page.status # StatusOK
    THEN [events |-> <<>>, err |-> "events endpoint returned status " \o Itoa(page.status),
          strategy |-> ""]
    ELSE LET parsed == parseEventsFromScript(page.script, eventType, now) IN
         IF parsed.err = "" /\ Len(parsed.events) > 0
         THEN [events |-> parsed.events \o cardEvents(page.cards, eventType, countryCode, now),
               err |-> "", strategy |-> "embedded"]
         ELSE [events |-> cardEvents(page.cards, eventType, countryCode, now),
               err |-> "", strategy |-> "markup"]

\* ScrapeEventsByCountry: [events, err, strategy]; page is what the GET of
\* the listing URL returned
ScrapeEventsByCountry(eventType, countryCode, page, now) ==
    LET built == buildEventsURL(eventType, countryCode) IN
    IF built.err # "" THEN [events |-> <<>>, err |-> built.err, strategy |-> ""]
    ELSE IF page.kind = "transport_error"
    THEN [events |-> <<>>, err |-> "error fetching events", strategy |-> ""]
    ELSE IF page.status # StatusOK
    THEN [events |-> <<>>, err |-> "events endpoint returned status " \o Itoa(page.status),
          strategy |-> ""]
    ELSE LET parsed == parseEventsFromScript(page.script, eventType, now) IN
         IF parsed.err = "" /\ Len(parsed.events) > 0
         THEN [events |-> parsed.events, err |-> "", strategy |-> "embedded"]
         ELSE [events |-> cardEvents(page.cards, eventType, countryCode, now),
               err |-> "", strategy |-> "markup"]

isSportsEvent(eventType) == EqualFold(TrimSpace(eventType), "SportsEvent")

\* The first object of a decoded list whose @type is SportsEvent
RECURSIVE firstSportsEvent(_)
firstSportsEvent(objs) ==
    IF Len(objs) = 0 THEN [found |-> FALSE, ld |-> [type |-> "", name |-> "", url |-> ""]]
    ELSE IF isSportsEvent(Head(objs).type) THEN [found |-> TRUE, ld |-> Head(objs)]
    ELSE firstSportsEvent(Tail(objs))

\* parseEventJSONLD over the page's application/ld+json blocks, in document
\* order.  A block is [form, objs]: form "empty" (blank text), "invalid",
\* "single" (one object, objs[1]) or "list".
RECURSIVE parseEventJSONLD(_)
parseEventJSONLD(blocks) ==
    IF Len(blocks) = 0 THEN [found |-> FALSE, ld |-> [type |-> "", name |-> "", url |-> ""]]
    ELSE LET b == Head(blocks) IN
         IF b.form = "single" /\ isSportsEvent(b.objs[1].type)
         THEN [found |-> TRUE, ld |-> b.objs[1]]
         ELSE IF b.form = "list" /\ firstSportsEvent(b.objs).found
         THEN firstSportsEvent(b.objs)
         ELSE parseEventJSONLD(Tail(blocks))

(***************************************************************************)
(* Entity Upsert Layer: SaveEvent, and the ScrapeEvents batch              *)
(***************************************************************************)

\* Faults the store can answer one SaveEvent call with
DBFaults == {"none", "query", "write"}

\* gorm's First over the matching rows hits (indices in primary key order):
\* the first of them, 0 for ErrRecordNotFound
FirstRow(hits) ==
    IF hits = {} THEN 0 ELSE CHOOSE i \in hits : \A j \in hits : i <= j

\* SaveEvent: [table, err].  The lookup is by event_url, or by external_id
\* when the URL is empty; event_url carries a unique index.
SaveEvent(table, event, fault, now) ==
    LET byExternalID == event.EventURL = "" /\ event.ExternalID # ""
        found == FirstRow({i \in 1..Len(table) :
                              IF byExternalID THEN table[i].ExternalID = event.ExternalID
                              ELSE table[i].EventURL = event.EventURL})
        sameURL == {i \in 1..Len(table) : table[i].EventURL = event.EventURL}
    IN IF fault = "query" THEN [table |-> table, err |-> "failed to check event"]
       ELSE IF found # 0
       THEN IF fault = "write" \/ sameURL \ {found} # {}
            THEN [table |-> table, err |-> "failed to update event"]
            ELSE [table |-> [table EXCEPT ![found] =
                                [event EXCEPT !.ID = table[found].ID,
                                              !.CreatedAt = table[found].CreatedAt,
                                              !.UpdatedAt = now]],
                  err |-> ""]
       ELSE IF fault = "write" \/ sameURL # {}
            THEN [table |-> table, err |-> "failed to create event"]
            ELSE [table |-> Append(table, [event EXCEPT !.ID = Len(table) + 1,
                                                        !.CreatedAt = now,
                                                        !.UpdatedAt = now]),
                  err |-> ""]

\* Bounds on the listing page and on the number of ScrapeEvents calls
MaxItems == 2
MaxCards == 1
MaxEventRuns == 1

NullInt == [null |-> TRUE, value |-> 0]
IntOf(n) == [null |-> FALSE, value |-> n]

\* Decoded records of the embedded array
EmbeddedItems ==
    {[id |-> 1, title |-> " Open A ", url |-> "/en/event/1", cover_image |-> "",
      cover_image_fallback |-> " a.png", days_to_start |-> IntOf(12),
      eventPeriod |-> "May 3 ", location_country |-> "ar",
      location_country_human |-> "Argentina", location_city |-> " Salta"],
     [id |-> 2, title |-> "Open B", url |-> "  ", cover_image |-> "b.png",
      cover_image_fallback |-> "", days_to_start |-> IntOf(-3),
      eventPeriod |-> "", location_country |-> "BR",
      location_country_human |-> "Brazil", location_city |-> ""],
     [id |-> 3, title |-> "", url |-> "https://adcc.smoothcomp.com/en/event/3",
      cover_image |-> "", cover_image_fallback |-> "", days_to_start |-> NullInt,
      eventPeriod |-> "", location_country |-> "",
      location_country_human |-> "", location_city |-> ""]}

\* .event-card elements of the listing markup
EventCards ==
    {[section |-> " Upcoming ", title |-> " Cup C ", titleHref |-> "/en/event/7",
      imageHref |-> "/en/event/7", imgSrc |-> " c.png ",
      flagClass |-> "flag-icon flag-icon-cl", location |-> <<" Santiago, ", "Chile">>,
      date |-> " Jun 1 ", days |-> " 40 days left "],
     [section |-> "", title |-> "Cup D", titleHref |-> "", imageHref |-> "en/event/8",
      imgSrc |-> "", flagClass |-> "", location |-> <<>>, date |-> "", days |-> ""],
     [section |-> "", title |-> "Cup E", titleHref |-> "  ", imageHref |-> "",
      imgSrc |-> "", flagClass |-> "flag-icon", location |-> <<",">>, date |-> "",
      days |-> ""]}

SeqsUpTo(S, n) == UNION {[1..k -> S] : k \in 0..n}

\* The script part of a listing page: no marker, an unterminated array, an
\* array that does not decode, or an array that decodes to items
PageScripts ==
    {[body |-> "<html></html>", decoded |-> [ok |-> FALSE, items |-> <<>>]],
     [body |-> "var events = [{\"id\":1", decoded |-> [ok |-> FALSE, items |-> <<>>]],
     [body |-> "var events = [{]", decoded |-> [ok |-> FALSE, items |-> <<>>]]}
    \cup {[body |-> "var events = [{}];", decoded |-> [ok |-> TRUE, items |-> items]] :
             items \in SeqsUpTo(EmbeddedItems, MaxItems)}

\* application/ld+json blocks a listing page may carry
PageLDBlocks ==
    {<<>>,
     <<[form |-> "single", objs |-> <<[type |-> "Organization", name |-> "Smoothcomp",
                                       url |-> "https://smoothcomp.com"]>>],
       [form |-> "list", objs |-> <<[type |-> " sportsevent", name |-> "Gala L",
                                     url |-> "https://smoothcomp.com/en/event/5"]>>]>>}

\* What the GET of the listing URL can return
ListingPages ==
    {[kind |-> "transport_error", status |-> 0,
      script |-> [body |-> "", decoded |-> [ok |-> FALSE, items |-> <<>>]],
      ld |-> <<>>, cards |-> <<>>],
     [kind |-> "response", status |-> StatusInternalServerError,
      script |-> [body |-> "", decoded |-> [ok |-> FALSE, items |-> <<>>]],
      ld |-> <<>>, cards |-> <<>>]}
    \cup {[kind |-> "response", status |-> StatusOK, script |-> sc, ld |-> ld,
           cards |-> cards] :
             sc \in PageScripts, ld \in PageLDBlocks,
             cards \in SeqsUpTo(EventCards, MaxCards)}

\* The (eventType, countryCode) arguments of a call
EventArgs == {<<"upcoming", " ar">>, <<"recent", "">>}

NoPage ==
    [kind |-> "none", status |-> 0,
     script |-> [body |-> "", decoded |-> [ok |-> FALSE, items |-> <<>>]],
     ld |-> <<>>, cards |-> <<>>]

InitEvents ==
    /\ epc = "idle"
    /\ eArgs = [eventType |-> "", countryCode |-> ""]
    /\ ePage = NoPage
    /\ eEvents = <<>>
    /\ eStrategy = ""
    /\ eIdx = 1
    /\ eSaveCalls = <<>>
    /\ eSaved = 0
    /\ eErr = ""
    /\ eRuns = 0
    /\ eventsTable = <<>>
    /\ jobsTable = <<>>

\* createJob: a running job row
createJob(jobs, jobType, now) ==
    Append(jobs, [ID |-> Len(jobs) + 1, JobType |-> jobType, Status |-> "running",
                  StartedAt |-> now, CompletedAt |-> NoTime, ItemsScraped |-> 0,
                  ErrorMessage |-> ""])

\* failJob on the job row job
failJob(jobs, job, err, now) ==
    [jobs EXCEPT ![job].Status = "failed", ![job].CompletedAt = now,
                 ![job].ErrorMessage = err]

\* completeJob on the job row job, after job.ItemsScraped = items
completeJob(jobs, job, items, now) ==
    [jobs EXCEPT ![job].Status = "completed", ![job].CompletedAt = now,
                 ![job].ItemsScraped = items]

\* ScrapeEvents up to its save loop: the job is created and the listing is
\* fetched and extracted; an error fails the job and is returned
ScrapeEventsStart(eventType, countryCode, page) ==
    /\ epc = "idle"
    /\ eRuns < MaxEventRuns
    /\ eRuns' = eRuns + 1
    /\ eArgs' = [eventType |-> eventType, countryCode |-> countryCode]
    /\ LET jobs == createJob(jobsTable, "events_" \o eventType, clock)
           built == buildEventsURL(eventType, countryCode)
           got == ScrapeEventsByCountry(eventType, countryCode, page, clock)
       IN /\ ePage' = IF built.err = "" THEN page ELSE NoPage
          /\ eEvents' = got.events
          /\ eStrategy' = got.strategy
          /\ eErr' = got.err
          /\ IF got.err # ""
             THEN /\ jobsTable' = failJob(jobs, Len(jobs), got.err, clock)
                  /\ epc' = "done"
             ELSE /\ jobsTable' = jobs
                  /\ epc' = "saving"
    /\ eIdx' = 1
    /\ eSaveCalls' = <<>>
    /\ eSaved' = 0
    /\ clock' = clock + 1
    /\ UNCHANGED eventsTable
    /\ EventFrame

\* One iteration of the save loop
ScrapeEventsSave(fault) ==
    /\ epc = "saving"
    /\ eIdx <= Len(eEvents)
    /\ LET saved == SaveEvent(eventsTable, eEvents[eIdx], fault, clock) IN
          /\ eventsTable' = saved.table
          /\ eSaveCalls' = Append(eSaveCalls, [event |-> eEvents[eIdx], err |-> saved.err])
          /\ eSaved' = IF saved.err = "" THEN eSaved + 1 ELSE eSaved
    /\ eIdx' = eIdx + 1
    /\ UNCHANGED <<epc, eArgs, ePage, eEvents, eStrategy, eErr, eRuns, jobsTable, clock>>
    /\ EventFrame

\* The loop is over: the job is completed with the saved count
ScrapeEventsComplete ==
    /\ epc = "saving"
    /\ eIdx > Len(eEvents)
    /\ jobsTable' = completeJob(jobsTable, Len(jobsTable), eSaved, clock)
    /\ epc' = "done"
    /\ eErr' = ""
    /\ UNCHANGED <<eArgs, ePage, eEvents, eStrategy, eIdx, eSaveCalls, eSaved, eRuns,
                   eventsTable, clock>>
    /\ EventFrame

\* The caller has the result; the tables stay
ScrapeEventsReturn ==
    /\ epc = "done"
    /\ epc' = "idle"
    /\ eArgs' = [eventType |-> "", countryCode |-> ""]
    /\ ePage' = NoPage
    /\ eEvents' = <<>>
    /\ eStrategy' = ""
    /\ eIdx' = 1
    /\ eSaveCalls' = <<>>
    /\ eSaved' = 0
    /\ eErr' = ""
    /\ UNCHANGED <<eRuns, eventsTable, jobsTable, clock>>
    /\ EventFrame

NextEvents ==
    \/ \E args \in EventArgs, page \in ListingPages :
          ScrapeEventsStart(args[1], args[2], page)
    \/ \E fault \in DBFaults : ScrapeEventsSave(fault)
    \/ ScrapeEventsComplete
    \/ ScrapeEventsReturn

(***************************************************************************)
(* Event athletes: ScrapeEventAthletes and saveAthleteFromEvent            *)
(***************************************************************************)

IsLabelChar(c) == c = "-" \/ Contains(LowerLetters \o Digits, c)

\* length of the run of [a-z0-9\-] bytes of s that starts at offset j
RECURSIVE LabelRun(_, _)
LabelRun(s, j) ==
    IF j < Len(s) /\ IsLabelChar(At(s, j)) THEN 1 + LabelRun(s, j + 1) ELSE 0

\* The host that `https?://([a-z0-9\-]+\.)?smoothcomp\.com` matches at offset
\* i of s ("" when it does not match there): the optional label is preferred
HostMatchAt(s, i) ==
    LET rest == Slice(s, i, Len(s))
        scheme == IF HasPrefix(rest, "https://") THEN 8
                  ELSE IF HasPrefix(rest, "http://") THEN 7 ELSE 0
        j == i + scheme
        n == LabelRun(s, j)
    IN IF scheme = 0 THEN ""
       ELSE IF n >= 1 /\ HasPrefix(Slice(s, j + n, Len(s)), ".smoothcomp.com")
       THEN Slice(s, j, j + n + Len(".smoothcomp.com"))
       ELSE IF HasPrefix(Slice(s, j, Len(s)), "smoothcomp.com")
       THEN "smoothcomp.com"
       ELSE ""

\* ExtractSubdomainFromURL: the leftmost match without its scheme
ExtractSubdomainFromURL(eventURL) ==
    LET hits == {i \in 0..(Len(eventURL) - 1) : HostMatchAt(eventURL, i) # ""}
    IN IF hits = {} THEN "smoothcomp.com"
       ELSE HostMatchAt(eventURL, CHOOSE i \in hits : \A j \in hits : i <= j)

BuildAPIURL(subdomain, eventID) ==
    "https://" \o subdomain \o "/en/event/" \o eventID \o "/participants"

\* The hosts DetectEventSubdomain can return for eventID: a candidate of the
\* list, or the primary domain when no probe could be built
DetectEventSubdomainResults(eventID) ==
    IF NewRequestFails(eventID) THEN {PrimaryDomain}
    ELSE {BaseURLOf(subdomains[i]) : i \in 1..Len(subdomains)}

\* strings.Split(s, sep) for a one-byte sep
RECURSIVE Split(_, _)
Split(s, sep) ==
    LET hits == {i \in 0..(Len(s) - 1) : At(s, i) = sep}
        first == CHOOSE i \in hits : \A j \in hits : i <= j
    IN IF hits = {} THEN <<s>>
       ELSE <<Slice(s, 0, first)>> \o Split(Slice(s, first + 1, Len(s)), sep)

\* parseCategory: "Men / Adults / Beginner / -60 kg"
parseCategory(category) ==
    LET parts == Split(category, "/") IN
    IF Len(parts) >= 4
    THEN [division |-> TrimSpace(parts[1]), ageCategory |-> TrimSpace(parts[2]),
          rank |-> TrimSpace(parts[3]), weightClass |-> TrimSpace(parts[4])]
    ELSE [division |-> "", ageCategory |-> "", rank |-> "", weightClass |-> ""]

IsDigits(s) == s # "" /\ \A i \in 0..(Len(s) - 1) : Contains(Digits, At(s, i))

DigitValue(c) == CHOOSE i \in 0..9 : At(Digits, i) = c

RECURSIVE ParseNat(_)
ParseNat(s) ==
    IF s = "" THEN 0
    ELSE ParseNat(Slice(s, 0, Len(s) - 1)) * 10 + DigitValue(At(s, Len(s) - 1))

\* strconv.Atoi: an optional sign and decimal digits
Atoi(s) ==
    LET signed == s # "" /\ At(s, 0) \in {"+", "-"}
        digits == IF signed THEN Slice(s, 1, Len(s)) ELSE s
    IN IF ~IsDigits(digits) THEN [ok |-> FALSE, value |-> 0]
       ELSE [ok |-> TRUE,
             value |-> IF signed /\ At(s, 0) = "-" THEN 0 - ParseNat(digits)
                       ELSE ParseNat(digits)]

\* strconv.ParseFloat on plain decimal notation with at most two decimals
\* ("60.90"); the value is kept in hundredths
ParseFloat(s) ==
    LET parts == Split(s, ".")
        frac == IF Len(parts) = 2 THEN parts[2] ELSE "0"
    IN IF Len(parts) > 2 \/ ~IsDigits(parts[1]) \/ ~IsDigits(frac) \/ Len(frac) > 2
       THEN [ok |-> FALSE, value |-> 0]
       ELSE [ok |-> TRUE,
             value |-> ParseNat(parts[1]) * 100
                       + (IF Len(frac) = 1 THEN 10 ELSE 1) * ParseNat(frac)]

NullStr == [null |-> TRUE, value |-> ""]
StrOf(s) == [null |-> FALSE, value |-> s]

\* The first measured weight of the registration's categories that parses
RECURSIVE firstWeight(_)
firstWeight(categories) ==
    IF categories = <<>> THEN 0
    ELSE LET w == Head(categories).WeightMeasured IN
         IF ~w.null /\ w.value # "" /\ ParseFloat(w.value).ok
         THEN ParseFloat(w.value).value
         ELSE firstWeight(Tail(categories))

\* The AthleteEventData built from one registration of a category
athleteOf(reg, cat) ==
    [SmoothCompID |-> Itoa(reg.UserID),
     FirstName |-> reg.FirstName,
     LastName |-> reg.LastName,
     MiddleName |-> reg.MiddleName,
     FullName |-> Join(IF reg.MiddleName # ""
                       THEN <<reg.FirstName, reg.MiddleName, reg.LastName>>
                       ELSE <<reg.FirstName, reg.LastName>>, " "),
     Country |-> reg.Country,
     CountryCode |-> ToUpper(reg.CountryCode),
     BirthYear |-> IF reg.Birth # "" /\ Atoi(reg.Birth).ok
                   THEN Atoi(reg.Birth).value ELSE 0,
     Age |-> reg.Age,
     AcademyName |-> reg.ClubName,
     AffiliationName |-> reg.AffiliationName,
     ProfileURL |-> "https://smoothcomp.com/en/profile/" \o Itoa(reg.UserID),
     ImageURL |-> reg.ProfileImage,
     Division |-> cat.division,
     AgeCategory |-> cat.ageCategory,
     Rank |-> cat.rank,
     WeightClass |-> cat.weightClass,
     ActualWeight |-> firstWeight(reg.Categories),
     Seed |-> IF reg.SeedPosition.null THEN 0 ELSE reg.SeedPosition.value,
     Ranking |-> 0,
     Gender |-> reg.Gender]

\* The minimum-data test an athlete passes before it is appended
athleteAccepted(athlete) == athlete.SmoothCompID # "" /\ athlete.FullName # ""

\* The athletes the loop over one category's registrations appends
categoryAthletes(participant) ==
    LET cat == parseCategory(participant.Name)
        built == [i \in 1..Len(participant.Registrations) |->
                     athleteOf(participant.Registrations[i], cat)]
    IN SelectSeq(built, athleteAccepted)

\* The athletes the loop over apiResponse.Participants appends
RECURSIVE extractAthletes(_)
extractAthletes(participants) ==
    IF participants = <<>> THEN <<>>
    ELSE categoryAthletes(Head(participants)) \o extractAthletes(Tail(participants))

RECURSIVE countRegistrations(_)
countRegistrations(participants) ==
    IF participants = <<>> THEN 0
    ELSE Len(Head(participants).Registrations) + countRegistrations(Tail(participants))

\* One failing statement per saveAthleteFromEvent call, at most
AthleteFaults == {"none", "athlete_query", "athlete_write", "reg_query", "reg_write"}

\* An academy lookup that falls back to the name it was given
academyExternalIDOf_Name(academies, name) ==
    LET found == FirstRow({i \in 1..Len(academies) : academies[i].Name = name})
    IN IF name = "" THEN "" ELSE IF found = 0 THEN name ELSE academies[found].ExternalID

\* tx.Where("name = ?", name).First(&academy): the academy's external id,
\* "" when the lookup was not made or found no row
academyExternalIDOf(academies, name) ==
    LET found == FirstRow({i \in 1..Len(academies) : academies[i].Name = name})
    IN IF name = "" \/ found = 0 THEN "" ELSE academies[found].ExternalID

\* The models.Athlete the create branch inserts
newAthlete(data, academyExternalID, id, now) ==
    [ID |-> id, ExternalID |-> data.SmoothCompID,
     FirstName |-> data.FirstName, LastName |-> data.LastName,
     FullName |-> data.FullName, AcademyExternalID |-> academyExternalID,
     Nationality |-> data.Country, CountryCode |-> data.CountryCode,
     BeltRank |-> "", Age |-> data.Age, Gender |-> data.Gender,
     ProfileURL |-> data.ProfileURL, AvatarURL |-> data.ImageURL,
     BirthYear |-> data.BirthYear, ImageURL |-> data.ImageURL,
     AffiliationName |-> data.AffiliationName,
     TotalWins |-> 0, WinsBySubmission |-> 0, WinsByPoints |-> 0,
     WinsByDecision |-> 0, WinsByDQ |-> 0,
     TotalLosses |-> 0, LossesBySubmission |-> 0, LossesByPoints |-> 0,
     LossesByDecision |-> 0, LossesByDQ |-> 0,
     ScrapedAt |-> now, CreatedAt |-> now, UpdatedAt |-> now]

\* The update branch saving a models.Athlete built anew from the event's data
updatedAthlete_Fresh(row, data, academies, now) ==
    [newAthlete(data, academyExternalIDOf(academies, data.AcademyName), row.ID, now)
        EXCEPT !.CreatedAt = row.CreatedAt]

\* The loaded models.Athlete after the update branch's assignments
updatedAthlete(row, data, academies, now) ==
    [row EXCEPT !.AcademyExternalID =
                    IF data.AcademyName # ""
                    THEN academyExternalIDOf(academies, data.AcademyName) ELSE @,
                !.FirstName = data.FirstName, !.LastName = data.LastName,
                !.FullName = data.FullName, !.CountryCode = data.CountryCode,
                !.Nationality = data.Country, !.BirthYear = data.BirthYear,
                !.Age = data.Age, !.ProfileURL = data.ProfileURL,
                !.ImageURL = data.ImageURL, !.AvatarURL = data.ImageURL,
                !.AffiliationName = data.AffiliationName,
                !.Gender = data.Gender, !.ScrapedAt = now, !.UpdatedAt = now]

\* The models.EventRegistration built for the athlete
newRegistration(athleteID, data, eventID, eventName, now) ==
    [ID |-> 0, AthleteID |-> athleteID, EventID |-> eventID,
     EventName |-> eventName, Division |-> data.Division,
     AgeCategory |-> data.AgeCategory, Rank |-> data.Rank,
     WeightClass |-> data.WeightClass, ActualWeight |-> data.ActualWeight,
     Seed |-> data.Seed, Ranking |-> data.Ranking, EventCardURL |-> "",
     RegistrationDate |-> now, CreatedAt |-> NoTime, UpdatedAt |-> NoTime]

\* Step 2 of the transaction: [registrations, err].  A lookup that fails with
\* another error than ErrRecordNotFound takes the update branch with a zero
\* primary key, and gorm's Save of a zero primary key inserts.  Save of an
\* existing key writes every column of the struct it is given.
saveRegistration(registrations, registration, fault, now) ==
    LET hits == {i \in 1..Len(registrations) :
                    /\ registrations[i].AthleteID = registration.AthleteID
                    /\ registrations[i].EventID = registration.EventID
                    /\ registrations[i].Division = registration.Division
                    /\ registrations[i].AgeCategory = registration.AgeCategory
                    /\ registrations[i].Rank = registration.Rank
                    /\ registrations[i].WeightClass = registration.WeightClass}
        found == IF fault = "reg_query" THEN 0 ELSE FirstRow(hits)
        inserted == Append(registrations,
                           [registration EXCEPT !.ID = Len(registrations) + 1,
                                                !.CreatedAt = now, !.UpdatedAt = now])
    IN IF fault # "reg_query" /\ found = 0
       THEN IF fault = "reg_write"
            THEN [registrations |-> registrations, err |-> "error creando inscripcion"]
            ELSE [registrations |-> inserted, err |-> ""]
       ELSE IF fault = "reg_write"
            THEN [registrations |-> registrations, err |-> "error actualizando inscripcion"]
            ELSE IF found = 0
            THEN [registrations |-> inserted, err |-> ""]
            ELSE [registrations |->
                      [registrations EXCEPT ![found] =
                          [registration EXCEPT !.ID = registrations[found].ID,
                                               !.UpdatedAt = now]],
                  err |-> ""]

\* saveAthleteFromEvent: [athletes, registrations, err].  The two steps run in
\* one transaction: an error of either leaves both tables as they were.
\* saveAthleteFromEvent outside a transaction: a failed registration write
\* leaves the athlete write in place
saveAthleteFromEvent_NoRollback(athletes, registrations, academies, data, eventID, eventName, fault, now) ==
    LET found == FirstRow({i \in 1..Len(athletes) :
                              athletes[i].ExternalID = data.SmoothCompID})
        athlete ==
            IF found = 0
            THEN newAthlete(data, academyExternalIDOf(academies, data.AcademyName),
                            Len(athletes) + 1, now)
            ELSE updatedAthlete(athletes[found], data, academies, now)
        athletesAfter ==
            IF found = 0 THEN Append(athletes, athlete)
            ELSE [athletes EXCEPT ![found] = athlete]
        reg == saveRegistration(registrations,
                                newRegistration(athlete.ID, data, eventID, eventName, now),
                                fault, now)
    IN IF fault = "athlete_query"
       THEN [athletes |-> athletes, registrations |-> registrations,
             err |-> "error buscando atleta"]
       ELSE IF fault = "athlete_write"
       THEN [athletes |-> athletes, registrations |-> registrations,
             err |-> IF found = 0 THEN "error creando atleta"
                     ELSE "error actualizando atleta"]
       ELSE [athletes |-> athletesAfter, registrations |-> reg.registrations,
             err |-> reg.err]

saveAthleteFromEvent(athletes, registrations, academies, data, eventID, eventName, fault, now) ==
    LET rollback(err) ==
            [athletes |-> athletes, registrations |-> registrations, err |-> err]
        found == FirstRow({i \in 1..Len(athletes) :
                              athletes[i].ExternalID = data.SmoothCompID})
        athlete ==
            IF found = 0
            THEN newAthlete(data, academyExternalIDOf(academies, data.AcademyName),
                            Len(athletes) + 1, now)
            ELSE updatedAthlete(athletes[found], data, academies, now)
        athletesAfter ==
            IF found = 0 THEN Append(athletes, athlete)
            ELSE [athletes EXCEPT ![found] = athlete]
        reg == saveRegistration(registrations,
                                newRegistration(athlete.ID, data, eventID, eventName, now),
                                fault, now)
    IN IF fault = "athlete_query" THEN rollback("error buscando atleta")
       ELSE IF fault = "athlete_write"
       THEN rollback(IF found = 0 THEN "error creando atleta"
                     ELSE "error actualizando atleta")
       ELSE IF reg.err # "" THEN rollback(reg.err)
       ELSE [athletes |-> athletesAfter, registrations |-> reg.registrations,
             err |-> ""]

\* Bound on the registrations of one participants response
MaxRegs == 2

\* Registrations of the participants endpoint.  user_id is 0 when the JSON
\* has no user_id (or null); a name is "" when the JSON has none.
Registrations ==
    {[UserID |-> 7, FirstName |-> "Ana", LastName |-> "Lima", MiddleName |-> "",
      Country |-> "Brazil", CountryCode |-> "br", Age |-> 30, Birth |-> "1994",
      ClubName |-> "Alliance", AffiliationName |-> "", ProfileImage |-> "ana.png",
      Gender |-> "F", SeedPosition |-> IntOf(2),
      Categories |-> <<[WeightMeasured |-> NullStr],
                       [WeightMeasured |-> StrOf("60.90")]>>],
     [UserID |-> 0, FirstName |-> "Bo", LastName |-> "Ek", MiddleName |-> "M",
      Country |-> "", CountryCode |-> "", Age |-> 0, Birth |-> "n/a",
      ClubName |-> "", AffiliationName |-> "Nordic", ProfileImage |-> "",
      Gender |-> "M", SeedPosition |-> NullInt,
      Categories |-> <<[WeightMeasured |-> StrOf("")],
                       [WeightMeasured |-> StrOf("x")]>>],
     [UserID |-> 7, FirstName |-> "", LastName |-> "", MiddleName |-> "",
      Country |-> "", CountryCode |-> "", Age |-> 0, Birth |-> "",
      ClubName |-> "Ghost", AffiliationName |-> "", ProfileImage |-> "",
      Gender |-> "", SeedPosition |-> NullInt, Categories |-> <<>>]}

\* The participants arrays that hold the registrations regs: none, one
\* category, or two categories that split regs
ParticipantsOf(regs) ==
    {<<[Name |-> "Men / Adults / Beginner / -60 kg", Registrations |-> regs]>>}
    \cup {<<[Name |-> "Women/Masters/Advanced/-55 kg/Gi",
             Registrations |-> SubSeq(regs, 1, k)],
            [Name |-> "Open class",
             Registrations |-> SubSeq(regs, k + 1, Len(regs))]>> :
          k \in 1..(Len(regs) - 1)}
    \cup (IF regs = <<>> THEN {<<>>} ELSE {})

\* What the POST can come back with: a transport error, a non-200 status, a
\* body that does not decode, or a decoded response
APIResponses ==
    {[kind |-> "transport_error", status |-> 0, decodes |-> FALSE, participants |-> <<>>],
     [kind |-> "response", status |-> StatusInternalServerError, decodes |-> FALSE,
      participants |-> <<>>],
     [kind |-> "response", status |-> StatusOK, decodes |-> FALSE, participants |-> <<>>]}
    \cup {[kind |-> "response", status |-> StatusOK, decodes |-> TRUE, participants |-> p] :
          p \in UNION {ParticipantsOf(regs) : regs \in SeqsUpTo(Registrations, MaxRegs)}}

NoResponse == [kind |-> "", status |-> 0, decodes |-> FALSE, participants |-> <<>>]

EventURLs == {"", "https://adcc.smoothcomp.com/en/event/1", "http://example.org/e/1"}

InitAthletes ==
    /\ ppc = "idle"
    /\ pArgs = [eventID |-> "", eventName |-> "", eventURL |-> ""]
    /\ pAPIURL = ""
    /\ pResp = NoResponse
    /\ pTotalRegs = 0
    /\ pAthletes = <<>>
    /\ pIdx = 1
    /\ pSaveCalls = <<>>
    /\ pSaved = 0
    /\ pErr = ""
    /\ athletesTable = <<>>
    /\ registrationsTable = <<>>
    /\ academiesTable = <<[ID |-> 1, ExternalID |-> "a1", Name |-> "Alliance",
                            Country |-> "Brazil", ScrapedAt |-> 1, CreatedAt |-> 1,
                            UpdatedAt |-> 1]>>

\* ScrapeEventAthletes up to the save loop: resolve the host, POST, decode,
\* and build the athletes list
ScrapeEventAthletesStart(eventID, eventURL, detected, resp) ==
    /\ ppc = "idle"
    /\ LET subdomain == IF eventURL # "" THEN ExtractSubdomainFromURL(eventURL)
                        ELSE detected
           apiURL == BuildAPIURL(subdomain, eventID)
           err == IF NewRequestFails(eventID) THEN "error creando request"
                  ELSE IF resp.kind = "transport_error" THEN "error haciendo request"
                  ELSE IF resp.status # StatusOK THEN "API retorno status"
                  ELSE IF ~resp.decodes THEN "error parseando JSON"
                  ELSE ""
       IN /\ pArgs' = [eventID |-> eventID, eventName |-> "Open", eventURL |-> eventURL]
          /\ pAPIURL' = apiURL
          /\ pResp' = resp
          /\ pErr' = err
          /\ IF err # ""
             THEN /\ ppc' = "done"
                  /\ UNCHANGED <<pTotalRegs, pAthletes>>
             ELSE /\ ppc' = "saving"
                  /\ pTotalRegs' = countRegistrations(resp.participants)
                  /\ pAthletes' = extractAthletes(resp.participants)
    /\ UNCHANGED <<pIdx, pSaveCalls, pSaved, athletesTable, registrationsTable,
                   academiesTable, clock>>
    /\ AthleteFrame

\* One iteration of the save loop: an error is logged and the loop goes on
ScrapeEventAthletesSave(fault) ==
    /\ ppc = "saving"
    /\ pIdx <= Len(pAthletes)
    /\ LET saved == saveAthleteFromEvent(athletesTable, registrationsTable,
                                         academiesTable, pAthletes[pIdx],
                                         pArgs.eventID, pArgs.eventName, fault, clock)
       IN /\ athletesTable' = saved.athletes
          /\ registrationsTable' = saved.registrations
          /\ pSaveCalls' = Append(pSaveCalls, [data |-> pAthletes[pIdx], err |-> saved.err])
          /\ pSaved' = IF saved.err = "" THEN pSaved + 1 ELSE pSaved
    /\ pIdx' = pIdx + 1
    /\ clock' = clock + 1
    /\ UNCHANGED <<ppc, pArgs, pAPIURL, pResp, pTotalRegs, pAthletes, pErr, academiesTable>>
    /\ AthleteFrame

\* The save loop is over: ScrapeEventAthletes returns nil
ScrapeEventAthletesReturn ==
    /\ ppc = "saving"
    /\ pIdx > Len(pAthletes)
    /\ ppc' = "done"
    /\ UNCHANGED <<pArgs, pAPIURL, pResp, pTotalRegs, pAthletes, pIdx, pSaveCalls,
                   pSaved, pErr, athletesTable, registrationsTable, academiesTable,
                   clock>>
    /\ AthleteFrame

NextAthletes ==
    \/ \E eventID \in EventIDs, eventURL \in EventURLs :
          \E detected \in (IF eventURL = "" THEN DetectEventSubdomainResults(eventID)
                           ELSE {""}),
             resp \in (IF NewRequestFails(eventID) THEN {NoResponse}
                       ELSE APIResponses) :
             ScrapeEventAthletesStart(eventID, eventURL, detected, resp)
    \/ \E fault \in AthleteFaults : ScrapeEventAthletesSave(fault)
    \/ ScrapeEventAthletesReturn

(***************************************************************************)
(* Match-history walk: fetchProfileEventStats and applyEventMatchStats     *)
(***************************************************************************)

\* profileStats{}
ZeroStats ==
    [TotalWins |-> 0, TotalLosses |-> 0,
     WinsBySubmission |-> 0, WinsByPoints |-> 0, WinsByDecision |-> 0, WinsByDQ |-> 0,
     LossesBySubmission |-> 0, LossesByPoints |-> 0, LossesByDecision |-> 0,
     LossesByDQ |-> 0]

\* classifyOutcome with the points test moved ahead of the decision test
classifyOutcome_PointsFirst(outcome) ==
    IF Contains(outcome, "submission") THEN "submission"
    ELSE IF Contains(outcome, "points") THEN "points"
    ELSE IF Contains(outcome, "decision") THEN "decision"
    ELSE IF Contains(outcome, "dq") \/ Contains(outcome, "disqualification") THEN "dq"
    ELSE ""

\* classifyOutcome, on the lower-cased and trimmed outcome
classifyOutcome(outcome) ==
    IF Contains(outcome, "submission") THEN "submission"
    ELSE IF Contains(outcome, "decision") THEN "decision"
    ELSE IF Contains(outcome, "points") THEN "points"
    ELSE IF Contains(outcome, "dq") \/ Contains(outcome, "disqualification") THEN "dq"
    ELSE ""

\* applyEventMatchStats without its early return for byes and walkovers
applyEventMatchStats_CountByes(stats, match) ==
    LET outcome == ToLower(TrimSpace(match.Outcome))
        method == classifyOutcome(outcome)
    IN IF match.IsWinner
       THEN LET won == [stats EXCEPT !.TotalWins = @ + 1] IN
            CASE method = "submission" -> [won EXCEPT !.WinsBySubmission = @ + 1]
              [] method = "decision" -> [won EXCEPT !.WinsByDecision = @ + 1]
              [] method = "points" -> [won EXCEPT !.WinsByPoints = @ + 1]
              [] method = "dq" -> [won EXCEPT !.WinsByDQ = @ + 1]
              [] OTHER -> won
       ELSE LET lost == [stats EXCEPT !.TotalLosses = @ + 1] IN
            CASE method = "submission" -> [lost EXCEPT !.LossesBySubmission = @ + 1]
              [] method = "decision" -> [lost EXCEPT !.LossesByDecision = @ + 1]
              [] method = "points" -> [lost EXCEPT !.LossesByPoints = @ + 1]
              [] method = "dq" -> [lost EXCEPT !.LossesByDQ = @ + 1]
              [] OTHER -> lost

\* applyEventMatchStats: the stats after the match is applied
applyEventMatchStats(stats, match) ==
    LET outcome == ToLower(TrimSpace(match.Outcome))
        method == classifyOutcome(outcome)
    IN IF Contains(outcome, "bye") \/ Contains(outcome, "walkover") THEN stats
       ELSE IF match.IsWinner
       THEN LET won == [stats EXCEPT !.TotalWins = @ + 1] IN
            CASE method = "submission" -> [won EXCEPT !.WinsBySubmission = @ + 1]
              [] method = "decision" -> [won EXCEPT !.WinsByDecision = @ + 1]
              [] method = "points" -> [won EXCEPT !.WinsByPoints = @ + 1]
              [] method = "dq" -> [won EXCEPT !.WinsByDQ = @ + 1]
              [] OTHER -> won
       ELSE LET lost == [stats EXCEPT !.TotalLosses = @ + 1] IN
            CASE method = "submission" -> [lost EXCEPT !.LossesBySubmission = @ + 1]
              [] method = "decision" -> [lost EXCEPT !.LossesByDecision = @ + 1]
              [] method = "points" -> [lost EXCEPT !.LossesByPoints = @ + 1]
              [] method = "dq" -> [lost EXCEPT !.LossesByDQ = @ + 1]
              [] OTHER -> lost

\* The three nested loops over one page, flattened: every match of the page
\* is applied in order
RECURSIVE applyMatches(_, _)
applyMatches(stats, matches) ==
    IF matches = <<>> THEN stats
    ELSE applyMatches(applyEventMatchStats(stats, Head(matches)), Tail(matches))

\* Bounds: matches of the whole history, and of one page (half of them)
MaxMatches == 4
MaxPageMatches == MaxMatches \div 2

\* Matches the events endpoint reports
Matches ==
    {[IsWinner |-> TRUE, Outcome |-> "Submission"],
     [IsWinner |-> TRUE, Outcome |-> "points"],
     [IsWinner |-> FALSE, Outcome |-> "Decision"],
     [IsWinner |-> TRUE, Outcome |-> " BYE "],
     [IsWinner |-> FALSE, Outcome |-> "Walkover"],
     [IsWinner |-> FALSE, Outcome |-> "points, DQ after decision"],
     [IsWinner |-> TRUE, Outcome |-> "Disqualification"],
     [IsWinner |-> FALSE, Outcome |-> ""]}

EventsURLOf(externalID) == "https://smoothcomp.com/en/profile/" \o externalID \o "/events"

\* next_page_url values: absent, empty, relative (the first page again),
\* absolute, and one that http.NewRequest rejects
NextPageURLs(externalID) ==
    {NullStr, StrOf(""),
     StrOf("/en/profile/" \o externalID \o "/events"),
     StrOf(EventsURLOf(externalID) \o "?page=2"),
     StrOf("%zz")}

\* What the GET of one page can come back with
PageOutcomes(externalID) ==
    {[kind |-> "transport_error", status |-> 0, decodes |-> FALSE, matches |-> <<>>,
      next |-> NullStr],
     [kind |-> "response", status |-> StatusInternalServerError, decodes |-> FALSE,
      matches |-> <<>>, next |-> NullStr],
     [kind |-> "response", status |-> StatusOK, decodes |-> FALSE, matches |-> <<>>,
      next |-> NullStr]}
    \cup {[kind |-> "response", status |-> StatusOK, decodes |-> TRUE, matches |-> ms,
           next |-> n] :
          ms \in SeqsUpTo(Matches, MaxPageMatches), n \in NextPageURLs(externalID)}

ExternalIDs == {"", "7"}

InitWalk ==
    /\ wpc = "idle"
    /\ wExternalID = ""
    /\ wUrl = ""
    /\ wStats = ZeroStats
    /\ wMatches = <<>>
    /\ wErr = ""

\* fetchProfileEventStats up to its loop
WalkStart(externalID) ==
    /\ wpc = "idle"
    /\ wExternalID' = externalID
    /\ wStats' = ZeroStats
    /\ IF externalID = ""
       THEN /\ wpc' = "done"
            /\ wErr' = "athlete_id is required"
            /\ UNCHANGED wUrl
       ELSE /\ wpc' = "walking"
            /\ wUrl' = EventsURLOf(externalID)
            /\ UNCHANGED wErr
    /\ UNCHANGED wMatches
    /\ WalkFrame

\* One iteration of the loop whose request cannot be built
WalkRequestError ==
    /\ wpc = "walking"
    /\ NewRequestFails(wUrl)
    /\ wpc' = "done"
    /\ wErr' = "error creating events request"
    /\ UNCHANGED <<wExternalID, wUrl, wStats, wMatches>>
    /\ WalkFrame

\* One iteration of the loop: fetch wUrl, apply the page's matches, follow
\* the next-page pointer or return
WalkPage ==
    /\ wpc = "walking"
    /\ ~NewRequestFails(wUrl)
    /\ \E page \in PageOutcomes(wExternalID) :
          /\ Len(wMatches) + Len(page.matches) <= MaxMatches
          /\ IF page.kind = "transport_error" \/ page.status # StatusOK \/ ~page.decodes
             THEN /\ wpc' = "done"
                  /\ wErr' = IF page.kind = "transport_error"
                             THEN "error fetching events"
                             ELSE IF page.status # StatusOK
                             THEN "events endpoint returned status"
                             ELSE "error decoding events response"
                  /\ UNCHANGED <<wUrl, wStats, wMatches>>
             ELSE /\ wStats' = applyMatches(wStats, page.matches)
                  /\ wMatches' = wMatches \o page.matches
                  /\ IF page.next.null \/ page.next.value = ""
                     THEN /\ wpc' = "done"
                          /\ UNCHANGED wUrl
                     ELSE /\ wpc' = "walking"
                          /\ wUrl' = IF HasPrefix(page.next.value, "/")
                                     THEN "https://smoothcomp.com" \o page.next.value
                                     ELSE page.next.value
                  /\ UNCHANGED wErr
    /\ UNCHANGED wExternalID
    /\ WalkFrame

NextWalk ==
    \/ \E externalID \in ExternalIDs : WalkStart(externalID)
    \/ WalkRequestError
    \/ WalkPage

(***************************************************************************)
(* Statistics reconciliation: fillTotalsFromBreakdown and                  *)
(* mergeProfileStatsFromEvents                                             *)
(***************************************************************************)

\* The ten statistics fields, in the order mergeProfileStatsFromEvents
\* visits them
StatFields ==
    <<"TotalWins", "TotalLosses", "WinsBySubmission", "WinsByPoints",
      "WinsByDecision", "WinsByDQ", "LossesBySubmission", "LossesByPoints",
      "LossesByDecision", "LossesByDQ">>

\* The sub-categories fillTotalsFromBreakdown adds up, in its order
WinParts == <<"WinsBySubmission", "WinsByDecision", "WinsByPoints", "WinsByDQ">>
LossParts ==
    <<"LossesBySubmission", "LossesByDecision", "LossesByPoints", "LossesByDQ">>

\* AthleteProfileData{}: every pointer nil
EmptyProfileData ==
    [BeltRank |-> NullStr,
     TotalWins |-> NullInt, WinsBySubmission |-> NullInt, WinsByPoints |-> NullInt,
     WinsByDecision |-> NullInt, WinsByDQ |-> NullInt,
     TotalLosses |-> NullInt, LossesBySubmission |-> NullInt,
     LossesByPoints |-> NullInt, LossesByDecision |-> NullInt,
     LossesByDQ |-> NullInt]

\* One `if stats.F > 0 { data.F = &stats.F }` with the test left out
mergeField_Always(data, stats, field) == [data EXCEPT ![field] = IntOf(stats[field])]

\* One `if stats.F > 0 { data.F = &stats.F }`
mergeField(data, stats, field) ==
    IF stats[field] > 0 THEN [data EXCEPT ![field] = IntOf(stats[field])] ELSE data

RECURSIVE mergeFields(_, _, _)
mergeFields(data, stats, fields) ==
    IF fields = <<>> THEN data
    ELSE mergeFields(mergeField(data, stats, Head(fields)), stats, Tail(fields))

\* mergeProfileStatsFromEvents that adds the walk's count to a present value
mergeProfileStatsFromEvents_Add(data, stats) ==
    [f \in DOMAIN data |->
        IF f = "BeltRank" \/ stats[f] = 0 THEN data[f]
        ELSE IF data[f].null THEN IntOf(stats[f])
        ELSE IntOf(data[f].value + stats[f])]

\* mergeProfileStatsFromEvents
mergeProfileStatsFromEvents(data, stats) == mergeFields(data, stats, StatFields)

\* The walk's totals merged whether or not the walk failed
mergeWalkStats_OnError(data, walk) == mergeProfileStatsFromEvents(data, walk.stats)

\* ScrapeAthleteProfile's use of what fetchProfileEventStats returned: an
\* error is logged and the totals returned with it are dropped
mergeWalkStats(data, walk) ==
    IF walk.err # "" THEN data ELSE mergeProfileStatsFromEvents(data, walk.stats)

\* The `total` of one side: the sum of its sub-categories that are present
RECURSIVE sumPresent(_, _)
sumPresent(data, parts) ==
    IF parts = <<>> THEN 0
    ELSE (IF data[Head(parts)].null THEN 0 ELSE data[Head(parts)].value)
         + sumPresent(data, Tail(parts))

\* One side of fillTotalsFromBreakdown that adds the sum to the total it finds
fillSide_Accumulate(data, totalField, parts) ==
    IF sumPresent(data, parts) > 0
    THEN [data EXCEPT ![totalField] = IntOf(@.value + sumPresent(data, parts))]
    ELSE data

\* One side of fillTotalsFromBreakdown
fillSide(data, totalField, parts) ==
    IF (data[totalField].null \/ data[totalField].value = 0)
       /\ sumPresent(data, parts) > 0
    THEN [data EXCEPT ![totalField] = IntOf(sumPresent(data, parts))]
    ELSE data

\* fillTotalsFromBreakdown
fillTotalsFromBreakdown(data) ==
    fillSide(fillSide(data, "TotalWins", WinParts), "TotalLosses", LossParts)

\* Bounds: present fields of a drawn page summary, and applications of the
\* two functions to it
MaxSummaryFields == 2
MaxApplications == 2

\* Bouts of a drawn walk
MaxWalkBouts == MaxSummaryFields - 1

\* Page summaries with at most MaxSummaryFields present fields, each 0 or 2
SummarySamples ==
    {[f \in DOMAIN EmptyProfileData |->
         IF f \in present THEN IntOf(value[f]) ELSE EmptyProfileData[f]] :
        <<present, value>> \in
            UNION {{<<fs, v>> : v \in [fs -> {0, 2}]} :
                   fs \in {x \in SUBSET {StatFields[i] : i \in 1..Len(StatFields)} :
                              Cardinality(x) <= MaxSummaryFields}}}

\* Walk totals of histories of at most MaxWalkBouts bouts
WalkSamples ==
    {applyMatches(ZeroStats, ms) :
        ms \in SeqsUpTo({[IsWinner |-> w, Outcome |-> o] :
                            w \in BOOLEAN,
                            o \in {"submission", "decision", "points", "dq", "draw"}},
                        MaxWalkBouts)}

InitReconcile ==
    /\ cpc = "idle"
    /\ cIn = EmptyProfileData
    /\ cStats = ZeroStats
    /\ cOut = EmptyProfileData
    /\ cPrev = EmptyProfileData
    /\ cOps = <<>>

\* A page summary is drawn
ReconcileDraw(data) ==
    /\ cpc = "idle"
    /\ cpc' = "drawn"
    /\ cIn' = data
    /\ cOut' = data
    /\ cPrev' = data
    /\ UNCHANGED <<cStats, cOps>>
    /\ ReconcileFrame

\* fillTotalsFromBreakdown is applied (before any merge, as in the pipeline)
ApplyFill ==
    /\ cpc = "drawn"
    /\ Len(cOps) < MaxApplications
    /\ \A i \in 1..Len(cOps) : cOps[i] = "fill"
    /\ cPrev' = cOut
    /\ cOut' = fillTotalsFromBreakdown(cOut)
    /\ cOps' = Append(cOps, "fill")
    /\ UNCHANGED <<cpc, cIn, cStats>>
    /\ ReconcileFrame

\* mergeProfileStatsFromEvents is applied; the walk totals are drawn at the
\* first merge and kept for the next ones
ApplyMerge(stats) ==
    /\ cpc = "drawn"
    /\ Len(cOps) < MaxApplications
    /\ (\E i \in 1..Len(cOps) : cOps[i] = "merge") => stats = cStats
    /\ cStats' = stats
    /\ cPrev' = cOut
    /\ cOut' = mergeProfileStatsFromEvents(cOut, stats)
    /\ cOps' = Append(cOps, "merge")
    /\ UNCHANGED <<cpc, cIn>>
    /\ ReconcileFrame

NextReconcile ==
    \/ \E data \in SummarySamples : ReconcileDraw(data)
    \/ ApplyFill
    \/ \E stats \in WalkSamples : ApplyMerge(stats)


(***************************************************************************)
(* Athlete profile: parseAthleteProfile on the selections of a page,       *)
(* ScrapeAthleteProfile and updateAthleteProfile                           *)
(***************************************************************************)

\* Offset of the first decimal digit of s, Len(s) when it has none
FirstDigit(s) ==
    IF \E i \in 0..(Len(s) - 1) : Contains(Digits, At(s, i))
    THEN CHOOSE i \in 0..(Len(s) - 1) :
            /\ Contains(Digits, At(s, i))
            /\ \A j \in 0..(i - 1) : ~Contains(Digits, At(s, j))
    ELSE Len(s)

\* End of the run of decimal digits of s that starts at offset i
RECURSIVE DigitRunEnd(_, _)
DigitRunEnd(s, i) ==
    IF i < Len(s) /\ Contains(Digits, At(s, i)) THEN DigitRunEnd(s, i + 1) ELSE i

\* parseIntFromString: the first run of digits of value, as [ok, value]
parseIntFromString(value) ==
    LET lo == FirstDigit(value)
    IN IF lo = Len(value) THEN [ok |-> FALSE, value |-> 0]
       ELSE [ok |-> TRUE, value |-> ParseNat(Slice(value, lo, DigitRunEnd(value, lo)))]

\* strings.Fields
RECURSIVE Fields(_)
Fields(s) ==
    LET t == TrimLeftSpace(s)
        end == IF \E i \in 0..(Len(t) - 1) : IsSpace(At(t, i))
               THEN CHOOSE i \in 0..(Len(t) - 1) :
                       /\ IsSpace(At(t, i))
                       /\ \A j \in 0..(i - 1) : ~IsSpace(At(t, j))
               ELSE Len(t)
    IN IF t = "" THEN <<>> ELSE <<Slice(t, 0, end)>> \o Fields(Slice(t, end, Len(t)))

\* normalizeLabel
normalizeLabel(label) == Join(Fields(ToLower(TrimSpace(label))), " ")

\* `if data.F == nil { data.F = &value }`
setIfNil(data, field, value) ==
    IF data[field].null THEN [data EXCEPT ![field] = IntOf(value)] ELSE data

\* The label tests both applyLegendStats and applyStat make
IsDQLabel(label) == Contains(label, "dq") \/ Contains(label, "disqualification")

\* The callback of applyLegendStats on one <li> of the legend: li is
\* [Total, Strong, Type, Text], the texts of .total, strong, .type and the li
applyLegendItem(data, isWin, li) ==
    LET parsed == parseIntFromString(IF li.Total = "" THEN li.Strong ELSE li.Total)
        type == ToLower(TrimSpace(li.Type))
        label == IF type = "" THEN ToLower(TrimSpace(li.Text)) ELSE type
        side == IF isWin THEN "Wins" ELSE "Losses"
    IN IF ~parsed.ok THEN data
       ELSE IF Contains(label, "submission") /\ data[side \o "BySubmission"].null
       THEN setIfNil(data, side \o "BySubmission", parsed.value)
       ELSE IF Contains(label, "decision") /\ data[side \o "ByDecision"].null
       THEN setIfNil(data, side \o "ByDecision", parsed.value)
       ELSE IF Contains(label, "points") /\ data[side \o "ByPoints"].null
       THEN setIfNil(data, side \o "ByPoints", parsed.value)
       ELSE IF IsDQLabel(label) /\ data[side \o "ByDQ"].null
       THEN setIfNil(data, side \o "ByDQ", parsed.value)
       ELSE data

\* applyLegendStats over the <li> elements the selector matched
RECURSIVE applyLegendStats(_, _, _)
applyLegendStats(data, isWin, items) ==
    IF items = <<>> THEN data
    ELSE applyLegendStats(applyLegendItem(data, isWin, Head(items)), isWin, Tail(items))

\* applyStat
applyStat(data, rawLabel, value) ==
    LET label == ToLower(rawLabel)
        side == IF Contains(label, "win") THEN "Wins"
                ELSE IF Contains(label, "loss") THEN "Losses" ELSE ""
    IN IF side = "" THEN data
       ELSE IF Contains(label, "submission")
       THEN setIfNil(data, side \o "BySubmission", value)
       ELSE IF Contains(label, "points") THEN setIfNil(data, side \o "ByPoints", value)
       ELSE IF Contains(label, "decision")
       THEN setIfNil(data, side \o "ByDecision", value)
       ELSE IF IsDQLabel(label) THEN setIfNil(data, side \o "ByDQ", value)
       ELSE setIfNil(data, "Total" \o side, value)

\* collectLabelValues' addItem: the pair is kept when both texts are non-blank
collectLabelValues(pairs) ==
    LET trimmed == [i \in 1..Len(pairs) |->
                       [Label |-> TrimSpace(pairs[i].Label),
                        Value |-> TrimSpace(pairs[i].Value)]]
        kept(p) == p.Label # "" /\ p.Value # ""
    IN SelectSeq(trimmed, kept)

\* One iteration of parseAthleteProfile's loop over the label/value items
applyLabelValue(data, item) ==
    LET label == normalizeLabel(item.Label)
        value == TrimSpace(item.Value)
        parsed == parseIntFromString(value)
    IN IF label = "" \/ value = "" THEN data
       ELSE IF data.BeltRank.null /\ Contains(label, "belt")
       THEN [data EXCEPT !.BeltRank = StrOf(value)]
       ELSE IF parsed.ok THEN applyStat(data, label, parsed.value)
       ELSE data

RECURSIVE applyLabelValues(_, _)
applyLabelValues(data, items) ==
    IF items = <<>> THEN data
    ELSE applyLabelValues(applyLabelValue(data, Head(items)), Tail(items))

\* The counters of applyFightStats after the <li> elements carrying a
\* .label-success or .label-danger badge: li is [Success, Danger, Label, Text]
RECURSIVE countFights(_, _)
countFights(stats, lis) ==
    IF lis = <<>> THEN stats
    ELSE LET li == Head(lis)
             labelText == ToUpper(TrimSpace(li.Label))
             isWin == li.Success \/ Contains(labelText, "WIN")
             isLoss == li.Danger \/ Contains(labelText, "LOSS")
             text == ToLower(TrimSpace(li.Text))
             side == IF isWin THEN "Wins" ELSE "Losses"
             method == IF Contains(text, "submission") THEN "BySubmission"
                       ELSE IF Contains(text, "decision") THEN "ByDecision"
                       ELSE IF Contains(text, "points") THEN "ByPoints"
                       ELSE IF IsDQLabel(text) THEN "ByDQ" ELSE ""
             counted == [stats EXCEPT !["Total" \o side] = @ + 1]
         IN countFights(IF ~isWin /\ ~isLoss THEN stats
                        ELSE IF method = "" THEN counted
                        ELSE [counted EXCEPT ![side \o method] = @ + 1],
                        Tail(lis))

\* The tail of applyFightStats: `if data.F == nil && n > 0 { data.F = &n }`
RECURSIVE applyCounts(_, _, _)
applyCounts(data, counts, fields) ==
    IF fields = <<>> THEN data
    ELSE applyCounts(IF counts[Head(fields)] > 0
                     THEN setIfNil(data, Head(fields), counts[Head(fields)])
                     ELSE data,
                     counts, Tail(fields))

\* applyFightStats
applyFightStats(data, lis) == applyCounts(data, countFights(ZeroStats, lis), StatFields)

\* A byte matched by \w
IsWordChar(c) == c # "" /\ (c = "_" \/ Contains(Digits, c) \/ c \in DOMAIN UpperOf \/ c \in DOMAIN LowerOf)

BeltColors == <<"white", "blue", "purple", "brown", "black">>

\* `\b(white|blue|purple|brown|black)\s+belt\b` matches color at offset i of s
BeltMatchAt(s, i, color) ==
    LET rest == Slice(s, i + Len(color), Len(s))
        tail == TrimLeftSpace(rest)
    IN /\ HasPrefix(Slice(s, i, Len(s)), color)
       /\ (i = 0 \/ ~IsWordChar(At(s, i - 1)))
       /\ rest # tail
       /\ HasPrefix(tail, "belt")
       /\ (Len(tail) = 4 \/ ~IsWordChar(At(tail, 4)))

\* extractBeltRank on the text of the skill-level selection
extractBeltRank(skillText) ==
    LET text == TrimSpace(skillText)
        lower == ToLower(text)
        hits == {<<i, k>> \in (0..(Len(lower) - 1)) \X (1..Len(BeltColors)) :
                    BeltMatchAt(lower, i, BeltColors[k])}
        first == CHOOSE h \in hits : \A g \in hits : h[1] <= g[1]
        color == BeltColors[first[2]]
    IN IF text = "" THEN ""
       ELSE IF hits = {} THEN text
       ELSE ToUpperChar(Head(color)) \o Tail(color) \o " belt"


\* The statistics columns of a persisted athlete
athleteStats(row) == [f \in DOMAIN ZeroStats |-> row[f]]

\* The updates map of updateAthleteProfile: the fields of data that are set
\* (the belt rank only when it is not empty)
profileUpdates_All(data) == DOMAIN data

profileUpdates(data) ==
    {f \in DOMAIN data :
        /\ ~data[f].null
        /\ f = "BeltRank" => data[f].value # ""}

ProfileFaults == {"none", "query", "write"}

\* updateAthleteProfile on the athletes table: [athletes, err]
updateAthleteProfile(athletes, externalID, data, fault, now) ==
    LET found == FirstRow({i \in 1..Len(athletes) : athletes[i].ExternalID = externalID})
        updates == profileUpdates(data)
        row == athletes[found]
        updated == [f \in DOMAIN row |->
                       IF f \in updates THEN data[f].value
                       ELSE IF f \in {"ScrapedAt", "UpdatedAt"} THEN now
                       ELSE row[f]]
    IN IF fault = "query" THEN [athletes |-> athletes, err |-> "error loading athlete"]
       ELSE IF found = 0
       THEN [athletes |-> athletes, err |-> "athlete not found: " \o externalID]
       ELSE IF updates = {} THEN [athletes |-> athletes, err |-> ""]
       ELSE IF fault = "write"
       THEN [athletes |-> athletes, err |-> "error updating athlete profile"]
       ELSE [athletes |-> [athletes EXCEPT ![found] = updated], err |-> ""]

\* Bound: ScrapeAthleteProfile calls of a behaviour
MaxProfileRuns == 2

\* The selections parseAthleteProfile makes on a page: the skill-level text,
\* the <li> of the two legends, the label/value pairs and the badge <li>
ProfilePages ==
    {[Skill |-> rest.skill, WinsLegend |-> wins, LossesLegend |-> rest.losses,
      Pairs |-> pairs, Fights |-> rest.fights] :
        wins \in {<<>>,
                  <<[Total |-> "3", Strong |-> "", Type |-> " Submission ", Text |-> ""]>>,
                  <<[Total |-> "", Strong |-> "0 wins", Type |-> "",
                     Text |-> "0 wins by Submission"]>>},
        pairs \in {<<>>,
                   <<[Label |-> " Total  Wins", Value |-> "0"],
                     [Label |-> "Wins", Value |-> "9"]>>,
                   <<[Label |-> "Belt", Value |-> " Purple "],
                     [Label |-> "Losses by DQ", Value |-> "2 fights"],
                     [Label |-> "Club", Value |-> " "]>>},
        rest \in {[skill |-> "", losses |-> <<>>, fights |-> <<>>],
                  [skill |-> " Adult BLUE  belt ",
                   losses |-> <<[Total |-> "1", Strong |-> "", Type |-> "Points",
                                 Text |-> ""],
                                [Total |-> "x", Strong |-> "", Type |-> "DQ",
                                 Text |-> ""]>>,
                   fights |-> <<[Success |-> TRUE, Danger |-> FALSE, Label |-> "W",
                                 Text |-> "W Points 4-2"],
                                [Success |-> FALSE, Danger |-> FALSE,
                                 Label |-> "loss", Text |-> "loss"]>>]}}

NoProfilePage ==
    [Skill |-> "", WinsLegend |-> <<>>, LossesLegend |-> <<>>, Pairs |-> <<>>,
     Fights |-> <<>>]

\* What client.Do and the status test leave of the profile request
ProfileResponses ==
    {[kind |-> "error", page |-> NoProfilePage], [kind |-> "status", page |-> NoProfilePage]}
    \cup {[kind |-> "page", page |-> p] : p \in ProfilePages}

\* What fetchProfileEventStats returns: an error on the first page, an error
\* on a later page with the totals of the pages before it, or the totals of a
\* history
ProfileWalks ==
    {[err |-> "error fetching events", stats |-> ZeroStats],
     [err |-> "error decoding events response",
      stats |-> applyMatches(ZeroStats, <<[IsWinner |-> TRUE, Outcome |-> "Submission"]>>)]}
    \cup {[err |-> "", stats |-> applyMatches(ZeroStats, ms)] :
            ms \in {<<>>,
                    <<[IsWinner |-> TRUE, Outcome |-> "Submission"]>>,
                    <<[IsWinner |-> FALSE, Outcome |-> "points"]>>}}

\* The (externalID, profileURL) arguments of ScrapeAthleteProfile
ProfileArgs ==
    {[externalID |-> "7", profileURL |-> ""],
     [externalID |-> "", profileURL |-> "https://smoothcomp.com/en/profile/7"],
     [externalID |-> "", profileURL |-> ""],
     [externalID |-> "", profileURL |-> "https://smoothcomp.com/en/profile/"],
     [externalID |-> "9", profileURL |-> ""]}

\* The athlete an event scrape stores before its profile is scraped
SeedAthlete ==
    athleteOf(CHOOSE r \in Registrations : r.UserID = 7 /\ r.FirstName = "Ana",
              parseCategory("Women/Masters/Advanced/-55 kg/Gi"))

InitProfile ==
    /\ qpc = "idle"
    /\ qID = ""
    /\ qPage = NoProfilePage
    /\ qData = EmptyProfileData
    /\ qPrev = EmptyProfileData
    /\ qStep = ""
    /\ qBefore = ZeroStats
    /\ qErr = ""
    /\ qRuns = 0
    /\ qWalk = [err |-> "", stats |-> ZeroStats]

\* An event's athlete scrape stores the athlete
ProfileSeed ==
    /\ qpc = "idle"
    /\ athletesTable = <<>>
    /\ LET saved == saveAthleteFromEvent(athletesTable, registrationsTable,
                                         academiesTable, SeedAthlete, "1", "Open",
                                         "none", clock)
       IN /\ athletesTable' = saved.athletes
          /\ registrationsTable' = saved.registrations
    /\ clock' = clock + 1
    /\ UNCHANGED profileVars
    /\ ProfileFrame

\* ScrapeAthleteProfile returns before the page is parsed: an argument is
\* missing, or the request failed
ProfileFail(args, resp) ==
    /\ qpc = "idle"
    /\ qRuns < MaxProfileRuns
    /\ LET url == IF args.profileURL = ""
                  THEN "https://smoothcomp.com/en/profile/" \o args.externalID
                  ELSE args.profileURL
           id == IF args.externalID = "" THEN ExtractIDFromURL(url) ELSE args.externalID
       IN /\ id = "" \/ resp.kind # "page"
          /\ qErr' = IF args.profileURL = "" /\ args.externalID = ""
                     THEN "athlete_id or profile_url is required"
                     ELSE IF id = ""
                     THEN "failed to resolve athlete id from profile url"
                     ELSE IF resp.kind = "error" THEN "error fetching profile"
                     ELSE "profile returned status"
          /\ qID' = id
    /\ qStep' = "fail"
    /\ qRuns' = qRuns + 1
    /\ UNCHANGED <<qpc, qPage, qData, qPrev, qBefore, qWalk>>
    /\ UNCHANGED <<athletesTable, registrationsTable, clock>>
    /\ ProfileFrame

\* ScrapeAthleteProfile up to parseAthleteProfile's belt extraction
ProfileStart(args, resp) ==
    /\ qpc = "idle"
    /\ qRuns < MaxProfileRuns
    /\ resp.kind = "page"
    /\ LET url == IF args.profileURL = ""
                  THEN "https://smoothcomp.com/en/profile/" \o args.externalID
                  ELSE args.profileURL
           id == IF args.externalID = "" THEN ExtractIDFromURL(url) ELSE args.externalID
           belt == extractBeltRank(resp.page.Skill)
       IN /\ id # ""
          /\ qID' = id
          /\ qData' = IF belt # "" THEN [EmptyProfileData EXCEPT !.BeltRank = StrOf(belt)]
                      ELSE EmptyProfileData
    /\ qpc' = "legend"
    /\ qPage' = resp.page
    /\ qPrev' = EmptyProfileData
    /\ qStep' = "belt"
    /\ qErr' = ""
    /\ qRuns' = qRuns + 1
    /\ qWalk' = [err |-> "", stats |-> ZeroStats]
    /\ UNCHANGED qBefore
    /\ UNCHANGED <<athletesTable, registrationsTable, clock>>
    /\ ProfileFrame

\* The two applyLegendStats calls
ProfileLegend ==
    /\ qpc = "legend"
    /\ qpc' = "labels"
    /\ qPrev' = qData
    /\ qData' = applyLegendStats(applyLegendStats(qData, TRUE, qPage.WinsLegend),
                                 FALSE, qPage.LossesLegend)
    /\ qStep' = "legend"
    /\ UNCHANGED <<qID, qPage, qBefore, qErr, qRuns, qWalk>>
    /\ UNCHANGED <<athletesTable, registrationsTable, clock>>
    /\ ProfileFrame

\* collectLabelValues and the loop over its items
ProfileLabels ==
    /\ qpc = "labels"
    /\ qpc' = "fights"
    /\ qPrev' = qData
    /\ qData' = applyLabelValues(qData, collectLabelValues(qPage.Pairs))
    /\ qStep' = "labels"
    /\ UNCHANGED <<qID, qPage, qBefore, qErr, qRuns, qWalk>>
    /\ UNCHANGED <<athletesTable, registrationsTable, clock>>
    /\ ProfileFrame

\* applyFightStats
ProfileFights ==
    /\ qpc = "fights"
    /\ qpc' = "fill"
    /\ qPrev' = qData
    /\ qData' = applyFightStats(qData, qPage.Fights)
    /\ qStep' = "fights"
    /\ UNCHANGED <<qID, qPage, qBefore, qErr, qRuns, qWalk>>
    /\ UNCHANGED <<athletesTable, registrationsTable, clock>>
    /\ ProfileFrame

\* fillTotalsFromBreakdown, the last step of parseAthleteProfile
ProfileFill ==
    /\ qpc = "fill"
    /\ qpc' = "walk"
    /\ qPrev' = qData
    /\ qData' = fillTotalsFromBreakdown(qData)
    /\ qStep' = "fill"
    /\ UNCHANGED <<qID, qPage, qBefore, qErr, qRuns, qWalk>>
    /\ UNCHANGED <<athletesTable, registrationsTable, clock>>
    /\ ProfileFrame

\* fetchProfileEventStats returned: its error is logged, its totals are merged
ProfileMerge(walk) ==
    /\ qpc = "walk"
    /\ qpc' = "update"
    /\ qPrev' = qData
    /\ qData' = mergeWalkStats(qData, walk)
    /\ qStep' = IF walk.err # "" THEN "walkfail" ELSE "merge"
    /\ qWalk' = IF walk.err # "" THEN walk ELSE [err |-> "", stats |-> ZeroStats]
    /\ UNCHANGED <<qID, qPage, qBefore, qErr, qRuns>>
    /\ UNCHANGED <<athletesTable, registrationsTable, clock>>
    /\ ProfileFrame

\* updateAthleteProfile, whose error ScrapeAthleteProfile returns
ProfileUpdate(fault) ==
    /\ qpc = "update"
    /\ qpc' = "idle"
    /\ LET res == updateAthleteProfile(athletesTable, qID, qData, fault, clock)
           found == FirstRow({i \in 1..Len(athletesTable) :
                                 athletesTable[i].ExternalID = qID})
       IN /\ athletesTable' = res.athletes
          /\ qErr' = res.err
          /\ qBefore' = IF found = 0 THEN ZeroStats
                        ELSE athleteStats(athletesTable[found])
          /\ qStep' = IF res.athletes # athletesTable THEN "update" ELSE "nowrite"
    /\ qPage' = NoProfilePage
    /\ qPrev' = qData
    /\ clock' = clock + 1
    /\ qWalk' = [err |-> "", stats |-> ZeroStats]
    /\ UNCHANGED <<qID, qData, qRuns, registrationsTable>>
    /\ ProfileFrame

NextProfile ==
    \/ ProfileSeed
    \/ \E args \in ProfileArgs, resp \in ProfileResponses : ProfileFail(args, resp)
    \/ \E args \in ProfileArgs, resp \in ProfileResponses : ProfileStart(args, resp)
    \/ ProfileLegend
    \/ ProfileLabels
    \/ ProfileFights
    \/ ProfileFill
    \/ \E walk \in ProfileWalks : ProfileMerge(walk)
    \/ \E fault \in ProfileFaults : ProfileUpdate(fault)


(***************************************************************************)
(* Upserts: SaveAcademy, SaveEventDetails (SaveEvent and                   *)
(* saveAthleteFromEvent are defined above) and sequences of upsert calls   *)
(***************************************************************************)

\* SaveAcademy without the lookup: every call takes the create branch
SaveAcademy_CreateOnly(table, academy, fault, now) ==
    IF fault = "write" \/ \E i \in 1..Len(table) : table[i].ExternalID = academy.ExternalID
    THEN [table |-> table, err |-> "failed to create academy"]
    ELSE [table |-> Append(table, [academy EXCEPT !.ID = Len(table) + 1,
                                                  !.CreatedAt = now, !.UpdatedAt = now]),
          err |-> ""]

\* SaveAcademy on the academies table: [table, err]. Any lookup error takes
\* the create branch; the unique index on external_id rejects a second row
SaveAcademy(table, academy, fault, now) ==
    LET hits == {i \in 1..Len(table) : table[i].ExternalID = academy.ExternalID}
        found == IF fault = "query" THEN 0 ELSE FirstRow(hits)
    IN IF found # 0
       THEN IF fault = "write" THEN [table |-> table, err |-> "failed to update academy"]
            ELSE [table |-> [table EXCEPT ![found] =
                                [academy EXCEPT !.ID = table[found].ID,
                                                !.CreatedAt = table[found].CreatedAt,
                                                !.UpdatedAt = now]],
                  err |-> ""]
       ELSE IF fault = "write" \/ hits # {}
            THEN [table |-> table, err |-> "failed to create academy"]
            ELSE [table |-> Append(table, [academy EXCEPT !.ID = Len(table) + 1,
                                                          !.CreatedAt = now,
                                                          !.UpdatedAt = now]),
                  err |-> ""]

\* The models.EventDetail SaveEventDetails builds from the details
eventDetailRecord(details, now) ==
    [ID |-> 0, EventID |-> details.EventID, EventURL |-> details.EventURL,
     Name |-> details.Name, Description |-> details.Description,
     ScrapedAt |-> now, CreatedAt |-> NoTime, UpdatedAt |-> NoTime]

\* SaveEventDetails on the event details table: [table, err]. The unique
\* index on event_id rejects a row whose event_id another row holds
SaveEventDetails(table, details, fault, now) ==
    LET record == eventDetailRecord(details, now)
        found == FirstRow({i \in 1..Len(table) :
                              \/ table[i].EventID = details.EventID
                              \/ details.EventURL # "" /\ table[i].EventURL = details.EventURL})
        sameID == {i \in 1..Len(table) : table[i].EventID = details.EventID}
    IN IF details.EventID = "" THEN [table |-> table, err |-> "event_id is required"]
       ELSE IF fault = "query"
       THEN [table |-> table, err |-> "failed to check event details"]
       ELSE IF found # 0
       THEN IF fault = "write" \/ sameID \ {found} # {}
            THEN [table |-> table, err |-> "failed to update event details"]
            ELSE [table |-> [table EXCEPT ![found] =
                                [record EXCEPT !.ID = table[found].ID,
                                               !.CreatedAt = table[found].CreatedAt,
                                               !.UpdatedAt = now]],
                  err |-> ""]
       ELSE IF fault = "write"
            THEN [table |-> table, err |-> "failed to create event details"]
            ELSE [table |-> Append(table, [record EXCEPT !.ID = Len(table) + 1,
                                                         !.CreatedAt = now,
                                                         !.UpdatedAt = now]),
                  err |-> ""]

\* Bound: upsert calls of a behaviour
MaxUpsertCalls == 2

\* The academies handed to SaveAcademy
AcademyInputs ==
    {[ID |-> 0, ExternalID |-> x.id, Name |-> x.name, Country |-> x.country,
      ScrapedAt |-> NoTime, CreatedAt |-> NoTime, UpdatedAt |-> NoTime] :
        x \in {[id |-> "a1", name |-> "Alliance HQ", country |-> ""],
               [id |-> "a2", name |-> "Gracie", country |-> "Brazil"],
               [id |-> "a2", name |-> "Gracie Barra", country |-> ""]}}

\* The events handed to SaveEvent
EventInputs ==
    {[EmptyEvent EXCEPT !.ExternalID = x.id, !.Name = x.name, !.EventURL = x.url] :
        x \in {[id |-> "5", name |-> "Open", url |-> "https://smoothcomp.com/en/event/5"],
               [id |-> "5", name |-> "Open 2025",
                url |-> "https://smoothcomp.com/en/event/5"],
               [id |-> "5", name |-> "Open", url |-> ""]}}

\* The details handed to SaveEventDetails
EventDetailInputs ==
    {[EventID |-> "5", EventURL |-> "https://smoothcomp.com/en/event/5",
      Name |-> "Open", Description |-> "Gi and No-Gi"],
     [EventID |-> "5", EventURL |-> "", Name |-> "Open II", Description |-> ""],
     [EventID |-> "6", EventURL |-> "https://smoothcomp.com/en/event/5",
      Name |-> "Cup", Description |-> ""]}

\* The athletes handed to saveAthleteFromEvent
AthleteInputs ==
    {athleteOf(reg, parseCategory("Men / Adults / Beginner / -60 kg")) :
        reg \in Registrations}
    \cup {athleteOf(reg, parseCategory("Women/Masters/Advanced/-55 kg/Gi")) :
            reg \in {r \in Registrations : r.FirstName = "Ana"}}

NoCall ==
    [op |-> "", rec |-> [none |-> TRUE], eventID |-> "", fault |-> "none", err |-> "",
     added |-> 0]

\* The five tables
Store ==
    [academies |-> academiesTable, events |-> eventsTable,
     eventDetails |-> eventDetailsTable, athletes |-> athletesTable,
     registrations |-> registrationsTable]

InitUpsert ==
    /\ uN = 0
    /\ uLast = NoCall
    /\ uPrev = NoCall
    /\ uBefore = [academies |-> <<>>, events |-> <<>>, eventDetails |-> <<>>,
                  athletes |-> <<>>, registrations |-> <<>>]

\* What every upsert call records; added is the number of rows it inserted
UpsertCalled(op, rec, eventID, fault, err, added) ==
    /\ uN < MaxUpsertCalls
    /\ uN' = uN + 1
    /\ uPrev' = uLast
    /\ uLast' = [op |-> op, rec |-> rec, eventID |-> eventID, fault |-> fault,
                 err |-> err, added |-> added]
    /\ uBefore' = Store
    /\ clock' = clock + 1

CallSaveAcademy(academy, fault) ==
    /\ LET res == SaveAcademy(academiesTable, academy, fault, clock)
       IN /\ academiesTable' = res.table
          /\ UpsertCalled("academy", academy, "", fault, res.err,
                          Len(res.table) - Len(academiesTable))
    /\ UNCHANGED <<eventsTable, eventDetailsTable, athletesTable, registrationsTable>>
    /\ UpsertFrame

CallSaveEvent(event, fault) ==
    /\ LET res == SaveEvent(eventsTable, event, fault, clock)
       IN /\ eventsTable' = res.table
          /\ UpsertCalled("event", event, "", fault, res.err,
                          Len(res.table) - Len(eventsTable))
    /\ UNCHANGED <<academiesTable, eventDetailsTable, athletesTable, registrationsTable>>
    /\ UpsertFrame

CallSaveEventDetails(details, fault) ==
    /\ LET res == SaveEventDetails(eventDetailsTable, details, fault, clock)
       IN /\ eventDetailsTable' = res.table
          /\ UpsertCalled("eventDetails", details, "", fault, res.err,
                          Len(res.table) - Len(eventDetailsTable))
    /\ UNCHANGED <<academiesTable, eventsTable, athletesTable, registrationsTable>>
    /\ UpsertFrame

CallSaveAthleteFromEvent(data, eventID, fault) ==
    /\ LET res == saveAthleteFromEvent(athletesTable, registrationsTable, academiesTable,
                                       data, eventID, "Open", fault, clock)
       IN /\ athletesTable' = res.athletes
          /\ registrationsTable' = res.registrations
          /\ UpsertCalled("athlete", data, eventID, fault, res.err,
                          Len(res.athletes) - Len(athletesTable)
                          + Len(res.registrations) - Len(registrationsTable))
    /\ UNCHANGED <<academiesTable, eventsTable, eventDetailsTable>>
    /\ UpsertFrame

NextUpsert ==
    \/ \E academy \in AcademyInputs, fault \in DBFaults : CallSaveAcademy(academy, fault)
    \/ \E event \in EventInputs, fault \in DBFaults : CallSaveEvent(event, fault)
    \/ \E details \in EventDetailInputs, fault \in DBFaults :
          CallSaveEventDetails(details, fault)
    \/ \E data \in AthleteInputs, fault \in AthleteFaults :
          CallSaveAthleteFromEvent(data, "1", fault)


(***************************************************************************)
(* Two goroutines upserting at the same time. SaveAcademy and SaveEvent    *)
(* run their lookup and their write as two statements; saveAthleteFromEvent*)
(* runs its statements in one SQLite transaction.                          *)
(***************************************************************************)

Procs == {"g1", "g2"}

NoRow == [ID |-> 0, CreatedAt |-> NoTime]

NoTx == [athletes |-> <<>>, registrations |-> <<>>]

\* Position of the row with the given primary key
RowOf(table, id) == CHOOSE i \in 1..Len(table) : table[i].ID = id

\* SQLite's file locks with every request granted
LockFree_Always(locks, p, level) == TRUE

\* SQLite's file locks: goroutine p's connection can take the RESERVED lock
\* when no other connection holds it, and the EXCLUSIVE lock (to write the
\* file) when no other connection holds any lock
LockFree(locks, p, level) ==
    \A q \in Procs \ {p} :
        IF level = "reserved" THEN locks[q] # "reserved" ELSE locks[q] = "none"

\* The First() of SaveAcademy and of SaveEvent
lookupAcademy(table, academy) ==
    LET k == FirstRow({i \in 1..Len(table) : table[i].ExternalID = academy.ExternalID})
    IN IF k = 0 THEN NoRow ELSE table[k]
lookupEvent(table, event) ==
    LET k == FirstRow({i \in 1..Len(table) :
                          IF event.EventURL = "" /\ event.ExternalID # ""
                          THEN table[i].ExternalID = event.ExternalID
                          ELSE table[i].EventURL = event.EventURL})
    IN IF k = 0 THEN NoRow ELSE table[k]

\* The Save or Create of SaveAcademy, given the row its lookup loaded
writeAcademy(table, academy, seen, now) ==
    IF seen.ID # 0
    THEN [table |-> [table EXCEPT ![RowOf(table, seen.ID)] =
                        [academy EXCEPT !.ID = seen.ID, !.CreatedAt = seen.CreatedAt,
                                        !.UpdatedAt = now]],
          err |-> ""]
    ELSE IF \E i \in 1..Len(table) : table[i].ExternalID = academy.ExternalID
    THEN [table |-> table, err |-> "failed to create academy"]
    ELSE [table |-> Append(table, [academy EXCEPT !.ID = Len(table) + 1,
                                                  !.CreatedAt = now, !.UpdatedAt = now]),
          err |-> ""]

\* The Save or Create of SaveEvent, given the row its lookup loaded
writeEvent(table, event, seen, now) ==
    LET sameURL == {i \in 1..Len(table) : table[i].EventURL = event.EventURL}
    IN IF seen.ID # 0
       THEN IF sameURL \ {RowOf(table, seen.ID)} # {}
            THEN [table |-> table, err |-> "failed to update event"]
            ELSE [table |-> [table EXCEPT ![RowOf(table, seen.ID)] =
                                [event EXCEPT !.ID = seen.ID,
                                              !.CreatedAt = seen.CreatedAt,
                                              !.UpdatedAt = now]],
                  err |-> ""]
       ELSE IF sameURL # {}
       THEN [table |-> table, err |-> "failed to create event"]
       ELSE [table |-> Append(table, [event EXCEPT !.ID = Len(table) + 1,
                                                   !.CreatedAt = now, !.UpdatedAt = now]),
             err |-> ""]

\* The Create or Save of the athlete inside the transaction, given the row
\* the lookup loaded: [athletes, athleteID, err]
writeAthlete(athletes, academies, data, seen, now) ==
    IF seen.ID # 0
    THEN [athletes |-> [athletes EXCEPT ![RowOf(athletes, seen.ID)] =
                           updatedAthlete(seen, data, academies, now)],
          athleteID |-> seen.ID, err |-> ""]
    ELSE IF \E i \in 1..Len(athletes) : athletes[i].ExternalID = data.SmoothCompID
    THEN [athletes |-> athletes, athleteID |-> 0, err |-> "error creando atleta"]
    ELSE [athletes |-> Append(athletes,
                              newAthlete(data,
                                         academyExternalIDOf(academies, data.AcademyName),
                                         Len(athletes) + 1, now)),
          athleteID |-> Len(athletes) + 1, err |-> ""]

\* Bound: calls started by the two goroutines together
MaxConcurrentCalls == 2

\* The calls a goroutine makes: academies by external id, events by URL,
\* athlete 7 in one bracket
ConcurrentCalls ==
    {[op |-> "academy", rec |-> a] : a \in AcademyInputs}
    \cup {[op |-> "event", rec |-> e] : e \in {x \in EventInputs : x.EventURL # ""}}
    \cup {[op |-> "athlete", rec |-> d] : d \in {x \in AthleteInputs : x.SmoothCompID = "7"}}

InitConcurrent ==
    /\ kpc = [p \in Procs |-> "idle"]
    /\ kCall = [p \in Procs |-> [op |-> "", rec |-> [none |-> TRUE]]]
    /\ kSeen = [p \in Procs |-> NoRow]
    /\ kTx = [p \in Procs |-> NoTx]
    /\ kLock = [p \in Procs |-> "none"]
    /\ kErr = [p \in Procs |-> ""]
    /\ kStarted = 0
    /\ kSerial = Store

\* Goroutine p enters SaveAcademy, SaveEvent or saveAthleteFromEvent
ConcurrentStart(p, call) ==
    /\ kpc[p] = "idle"
    /\ kStarted < MaxConcurrentCalls
    /\ kStarted' = kStarted + 1
    /\ kCall' = [kCall EXCEPT ![p] = call]
    /\ kpc' = [kpc EXCEPT ![p] = IF call.op = "athlete" THEN "find athlete" ELSE "find"]
    /\ kSeen' = [kSeen EXCEPT ![p] = NoRow]
    /\ kErr' = [kErr EXCEPT ![p] = ""]
    /\ UNCHANGED <<kTx, kLock, kSerial>>
    /\ UNCHANGED <<academiesTable, eventsTable, athletesTable, registrationsTable>>
    /\ ConcurrentFrame

\* The First() of SaveAcademy or SaveEvent
ConcurrentLookup(p) ==
    /\ kpc[p] = "find"
    /\ kpc' = [kpc EXCEPT ![p] = "write"]
    /\ kSeen' = [kSeen EXCEPT ![p] =
                    IF kCall[p].op = "academy"
                    THEN lookupAcademy(academiesTable, kCall[p].rec)
                    ELSE lookupEvent(eventsTable, kCall[p].rec)]
    /\ UNCHANGED <<kCall, kTx, kLock, kErr, kStarted, kSerial>>
    /\ UNCHANGED <<academiesTable, eventsTable, athletesTable, registrationsTable>>
    /\ ConcurrentFrame

\* The Save or Create of SaveAcademy or SaveEvent, after which the call
\* returns; the statement fails when another connection holds a lock
ConcurrentWrite(p) ==
    /\ kpc[p] = "write"
    /\ kpc' = [kpc EXCEPT ![p] = "idle"]
    /\ LET free == LockFree(kLock, p, "exclusive")
           res == IF kCall[p].op = "academy"
                  THEN writeAcademy(academiesTable, kCall[p].rec, kSeen[p], clock)
                  ELSE writeEvent(eventsTable, kCall[p].rec, kSeen[p], clock)
           ok == free /\ res.err = ""
       IN /\ academiesTable' = IF ok /\ kCall[p].op = "academy" THEN res.table
                               ELSE academiesTable
          /\ eventsTable' = IF ok /\ kCall[p].op = "event" THEN res.table ELSE eventsTable
          /\ kErr' = [kErr EXCEPT ![p] = IF free THEN res.err ELSE "database is locked"]
          /\ kSerial' =
                IF ~ok THEN kSerial
                ELSE IF kCall[p].op = "academy"
                THEN [kSerial EXCEPT !.academies =
                         SaveAcademy(@, kCall[p].rec, "none", clock).table]
                ELSE [kSerial EXCEPT !.events =
                         SaveEvent(@, kCall[p].rec, "none", clock).table]
    /\ UNCHANGED <<kCall, kSeen, kTx, kLock, kStarted>>
    /\ UNCHANGED <<athletesTable, registrationsTable>>
    /\ ConcurrentFrame

\* The athlete lookup, the first statement of the transaction: the
\* connection takes the SHARED lock
TxLookupAthlete(p) ==
    /\ kpc[p] = "find athlete"
    /\ kpc' = [kpc EXCEPT ![p] = "write athlete"]
    /\ kLock' = [kLock EXCEPT ![p] = "shared"]
    /\ kSeen' = [kSeen EXCEPT ![p] =
                    LET k == FirstRow({i \in 1..Len(athletesTable) :
                                          athletesTable[i].ExternalID
                                             = kCall[p].rec.SmoothCompID})
                    IN IF k = 0 THEN NoRow ELSE athletesTable[k]]
    /\ UNCHANGED <<kCall, kTx, kErr, kStarted, kSerial>>
    /\ UNCHANGED <<academiesTable, eventsTable, athletesTable, registrationsTable>>
    /\ ConcurrentFrame

\* The athlete's Create or Save: the connection takes the RESERVED lock; when
\* it cannot, or the statement fails, the transaction is rolled back
TxWriteAthlete(p) ==
    /\ kpc[p] = "write athlete"
    /\ LET free == LockFree(kLock, p, "reserved")
           res == writeAthlete(athletesTable, academiesTable, kCall[p].rec, kSeen[p], clock)
           ok == free /\ res.err = ""
       IN /\ kpc' = [kpc EXCEPT ![p] = IF ok THEN "registration" ELSE "idle"]
          /\ kLock' = [kLock EXCEPT ![p] = IF ok THEN "reserved" ELSE "none"]
          /\ kTx' = [kTx EXCEPT ![p] =
                        IF ok THEN [athletes |-> res.athletes,
                                    registrations |-> registrationsTable]
                        ELSE NoTx]
          /\ kSeen' = [kSeen EXCEPT ![p] = IF ok THEN [@ EXCEPT !.ID = res.athleteID]
                                           ELSE NoRow]
          /\ kErr' = [kErr EXCEPT ![p] = IF free THEN res.err ELSE "database is locked"]
    /\ UNCHANGED <<kCall, kStarted, kSerial>>
    /\ UNCHANGED <<academiesTable, eventsTable, athletesTable, registrationsTable>>
    /\ ConcurrentFrame

\* The registration's lookup and its Create or Save, under the RESERVED lock
TxRegistration(p) ==
    /\ kpc[p] = "registration"
    /\ kpc' = [kpc EXCEPT ![p] = "commit"]
    /\ kTx' = [kTx EXCEPT ![p].registrations =
                  saveRegistration(@, newRegistration(kSeen[p].ID, kCall[p].rec, "1",
                                                      "Open", clock),
                                   "none", clock).registrations]
    /\ UNCHANGED <<kCall, kSeen, kLock, kErr, kStarted, kSerial>>
    /\ UNCHANGED <<academiesTable, eventsTable, athletesTable, registrationsTable>>
    /\ ConcurrentFrame

\* The commit: the connection takes the EXCLUSIVE lock and the tables become
\* what the transaction wrote; when it cannot, the transaction is rolled back
TxCommit(p) ==
    /\ kpc[p] = "commit"
    /\ kpc' = [kpc EXCEPT ![p] = "idle"]
    /\ kLock' = [kLock EXCEPT ![p] = "none"]
    /\ kTx' = [kTx EXCEPT ![p] = NoTx]
    /\ LET free == LockFree(kLock, p, "exclusive")
           serial == saveAthleteFromEvent(kSerial.athletes, kSerial.registrations,
                                          kSerial.academies, kCall[p].rec, "1", "Open",
                                          "none", clock)
       IN /\ athletesTable' = IF free THEN kTx[p].athletes ELSE athletesTable
          /\ registrationsTable' = IF free THEN kTx[p].registrations
                                   ELSE registrationsTable
          /\ kErr' = [kErr EXCEPT ![p] = IF free THEN "" ELSE "database is locked"]
          /\ kSerial' = IF free
                        THEN [kSerial EXCEPT !.athletes = serial.athletes,
                                             !.registrations = serial.registrations]
                        ELSE kSerial
    /\ UNCHANGED <<kCall, kSeen, kStarted>>
    /\ UNCHANGED <<academiesTable, eventsTable>>
    /\ ConcurrentFrame

NextConcurrent ==
    \/ \E p \in Procs, call \in ConcurrentCalls : ConcurrentStart(p, call)
    \/ \E p \in Procs : ConcurrentLookup(p)
    \/ \E p \in Procs : ConcurrentWrite(p)
    \/ \E p \in Procs : TxLookupAthlete(p)
    \/ \E p \in Procs : TxWriteAthlete(p)
    \/ \E p \in Procs : TxRegistration(p)
    \/ \E p \in Procs : TxCommit(p)


(***************************************************************************)
(* The batch operations: a list is fetched (or loaded), then each item is  *)
(* handed to its per-item operation; a failed item is logged and the loop  *)
(* goes on.                                                                *)
(***************************************************************************)

\* parseAthleteProfile on the selections of a page
parseAthleteProfile(page) ==
    LET belt == extractBeltRank(page.Skill)
        data == IF belt # "" THEN [EmptyProfileData EXCEPT !.BeltRank = StrOf(belt)]
                ELSE EmptyProfileData
        legend == applyLegendStats(applyLegendStats(data, TRUE, page.WinsLegend),
                                   FALSE, page.LossesLegend)
        labels == applyLabelValues(legend, collectLabelValues(page.Pairs))
    IN fillTotalsFromBreakdown(applyFightStats(labels, page.Fights))

\* ScrapeAthleteProfile on the athletes table, given what the profile request
\* and fetchProfileEventStats return: [athletes, data, err]
ScrapeAthleteProfile(athletes, externalID, profileURL, resp, walk, fault, now) ==
    LET url == IF profileURL = ""
               THEN "https://smoothcomp.com/en/profile/" \o externalID ELSE profileURL
        id == IF externalID = "" THEN ExtractIDFromURL(url) ELSE externalID
        parsed == parseAthleteProfile(resp.page)
        data == mergeWalkStats(parsed, walk)
        res == updateAthleteProfile(athletes, id, data, fault, now)
        failed(err) == [athletes |-> athletes, data |-> EmptyProfileData, err |-> err]
    IN IF profileURL = "" /\ externalID = ""
       THEN failed("athlete_id or profile_url is required")
       ELSE IF id = "" THEN failed("failed to resolve athlete id from profile url")
       ELSE IF resp.kind = "error" THEN failed("error fetching profile")
       ELSE IF resp.kind = "status" THEN failed("profile returned status")
       ELSE [athletes |-> res.athletes, data |-> data, err |-> res.err]

\* The query of ScrapeAthleteProfiles: order by id, the onlyMissing filter,
\* then Offset and Limit when positive
selectAthletes(athletes, limit, offset, onlyMissing) ==
    LET Missing(r) == r.BeltRank = "" \/ (r.TotalWins = 0 /\ r.TotalLosses = 0)
        rows == IF onlyMissing THEN SelectSeq(athletes, Missing) ELSE athletes
        skipped == IF offset > 0 THEN SubSeq(rows, offset + 1, Len(rows)) ELSE rows
    IN IF limit > 0 /\ limit < Len(skipped) THEN SubSeq(skipped, 1, limit) ELSE skipped

\* The counter of a batch loop with every item counted
countItem_All(count, err) == count + 1

\* The counter of a batch loop after an item: savedCount++ is reached only
\* when the per-item operation returned nil
countItem(count, err) == IF err = "" THEN count + 1 ELSE count

\* Bounds: items of a fetched list, batches of a behaviour
MaxBatchItems == 2
MaxBatchRuns == 2

\* What ScrapeEventsByCountry returns to ScrapeEvents
BatchEventLists ==
    {[err |-> "failed to fetch events list", items |-> <<>>]}
    \cup {[err |-> "", items |-> l] :
            l \in SeqsUpTo({e \in EventInputs : e.EventURL # ""}, MaxBatchItems)}

\* What ScrapeAcademiesByCountry returns for the target countries
BatchCountryLists ==
    SeqsUpTo({[err |-> "failed to fetch academies", items |-> <<>>]}
             \cup {[err |-> "", items |-> l] :
                     l \in {<<a>> : a \in {x \in AcademyInputs : x.Country # ""}}
                           \cup {<<a, b>> : a \in {x \in AcademyInputs :
                                                      x.ExternalID = "a1"},
                                            b \in {x \in AcademyInputs :
                                                      x.ExternalID = "a2"
                                                      /\ x.Country = ""}}},
             MaxBatchItems)

\* What the participants request and the extraction loop leave to
\* ScrapeEventAthletes
BatchAthleteLists ==
    {[err |-> "error haciendo request", items |-> <<>>]}
    \cup {[err |-> "", items |-> l] :
            l \in SeqsUpTo({d \in AthleteInputs :
                               d.Division = "Men" /\ d.FirstName # ""},
                           MaxBatchItems)}

\* What the requests of one ScrapeAthleteProfile call return, and the
\* persistence fault it meets
BatchProfileOutcomes ==
    LET page == CHOOSE p \in ProfilePages :
                   /\ p.Skill # "" /\ p.Pairs = <<>>
                   /\ p.WinsLegend # <<>> /\ p.WinsLegend[1].Total = "3"
        ok == CHOOSE w \in ProfileWalks : w.err = "" /\ w.stats.TotalWins = 1
        bad == CHOOSE w \in ProfileWalks : w.err # ""
    IN {[resp |-> [kind |-> "error", page |-> NoProfilePage], walk |-> bad,
         fault |-> "none"],
        [resp |-> [kind |-> "page", page |-> page], walk |-> ok, fault |-> "none"],
        [resp |-> [kind |-> "page", page |-> page], walk |-> bad, fault |-> "none"],
        [resp |-> [kind |-> "page", page |-> page], walk |-> ok, fault |-> "write"]}

InitBatch ==
    /\ bpc = "idle"
    /\ bOp = ""
    /\ bCountries = <<>>
    /\ bItems = <<>>
    /\ bIdx = 1
    /\ bCount = 0
    /\ bLog = <<>>
    /\ bAll = <<>>
    /\ bErr = ""
    /\ bRuns = 0

\* A batch whose list is fetched by one call enters its loop, or returns the
\* error of that call
BatchEnter(op, got) ==
    /\ bpc = "idle"
    /\ bRuns < MaxBatchRuns
    /\ bRuns' = bRuns + 1
    /\ bOp' = op
    /\ bpc' = IF got.err # "" THEN "done" ELSE "loop"
    /\ bErr' = got.err
    /\ bItems' = got.items
    /\ bAll' = got.items
    /\ bIdx' = 1
    /\ bCount' = 0
    /\ bLog' = <<>>
    /\ bCountries' = <<>>
    /\ UNCHANGED <<eventsTable, academiesTable, athletesTable, registrationsTable, clock>>
    /\ BatchFrame

\* ScrapeEvents up to its loop
BatchScrapeEvents(got) == BatchEnter("events", got)

\* ScrapeEventAthletes up to its save loop
BatchScrapeEventAthletes(got) == BatchEnter("athletes", got)

\* ScrapeAthleteProfiles up to its loop: the athletes are loaded; a failed
\* query is returned, an empty selection returns 0
BatchScrapeAthleteProfiles(limit, offset, onlyMissing, fault) ==
    BatchEnter("profiles",
               IF fault = "query" THEN [err |-> "error loading athletes", items |-> <<>>]
               ELSE [err |-> "",
                     items |-> selectAthletes(athletesTable, limit, offset, onlyMissing)])

\* ScrapeAcademies up to its loop over the target countries
BatchScrapeAcademies(countries) ==
    /\ bpc = "idle"
    /\ bRuns < MaxBatchRuns
    /\ bRuns' = bRuns + 1
    /\ bOp' = "academies"
    /\ bpc' = "loop"
    /\ bErr' = ""
    /\ bCountries' = countries
    /\ bItems' = <<>>
    /\ bAll' = <<>>
    /\ bIdx' = 1
    /\ bCount' = 0
    /\ bLog' = <<>>
    /\ UNCHANGED <<eventsTable, academiesTable, athletesTable, registrationsTable, clock>>
    /\ BatchFrame

\* ScrapeAcademies reaches the next country: a failed listing is logged and
\* the loop goes on to the country after it
BatchNextCountry ==
    /\ bpc = "loop" /\ bOp = "academies"
    /\ bIdx > Len(bItems)
    /\ bCountries # <<>>
    /\ bCountries' = Tail(bCountries)
    /\ bItems' = Head(bCountries).items
    /\ bAll' = bAll \o Head(bCountries).items
    /\ bIdx' = 1
    /\ UNCHANGED <<bpc, bOp, bCount, bLog, bErr, bRuns>>
    /\ UNCHANGED <<eventsTable, academiesTable, athletesTable, registrationsTable, clock>>
    /\ BatchFrame

\* One iteration of the loop of ScrapeEvents
BatchSaveEvent(fault) ==
    /\ bpc = "loop" /\ bOp = "events"
    /\ bIdx <= Len(bItems)
    /\ LET saved == SaveEvent(eventsTable, bItems[bIdx], fault, clock)
       IN /\ eventsTable' = saved.table
          /\ bLog' = Append(bLog, [item |-> bItems[bIdx], err |-> saved.err])
          /\ bCount' = countItem(bCount, saved.err)
    /\ bIdx' = bIdx + 1
    /\ UNCHANGED clock
    /\ UNCHANGED <<bpc, bOp, bCountries, bItems, bAll, bErr, bRuns>>
    /\ UNCHANGED <<academiesTable, athletesTable, registrationsTable>>
    /\ BatchFrame

\* One iteration of the inner loop of ScrapeAcademies
BatchSaveAcademy(fault) ==
    /\ bpc = "loop" /\ bOp = "academies"
    /\ bIdx <= Len(bItems)
    /\ LET saved == SaveAcademy(academiesTable, bItems[bIdx], fault, clock)
       IN /\ academiesTable' = saved.table
          /\ bLog' = Append(bLog, [item |-> bItems[bIdx], err |-> saved.err])
          /\ bCount' = countItem(bCount, saved.err)
    /\ bIdx' = bIdx + 1
    /\ UNCHANGED clock
    /\ UNCHANGED <<bpc, bOp, bCountries, bItems, bAll, bErr, bRuns>>
    /\ UNCHANGED <<eventsTable, athletesTable, registrationsTable>>
    /\ BatchFrame

\* One iteration of the save loop of ScrapeEventAthletes
BatchSaveAthlete(fault) ==
    /\ bpc = "loop" /\ bOp = "athletes"
    /\ bIdx <= Len(bItems)
    /\ LET saved == saveAthleteFromEvent(athletesTable, registrationsTable,
                                         academiesTable, bItems[bIdx], "1", "Open",
                                         fault, clock)
       IN /\ athletesTable' = saved.athletes
          /\ registrationsTable' = saved.registrations
          /\ bLog' = Append(bLog, [item |-> bItems[bIdx], err |-> saved.err])
          /\ bCount' = countItem(bCount, saved.err)
    /\ bIdx' = bIdx + 1
    /\ UNCHANGED clock
    /\ UNCHANGED <<bpc, bOp, bCountries, bItems, bAll, bErr, bRuns>>
    /\ UNCHANGED <<eventsTable, academiesTable>>
    /\ BatchFrame

\* One iteration of the loop of ScrapeAthleteProfiles: an athlete without
\* external id and profile URL is skipped
BatchScrapeProfile(outcome) ==
    /\ bpc = "loop" /\ bOp = "profiles"
    /\ bIdx <= Len(bItems)
    /\ LET athlete == bItems[bIdx]
           got == ScrapeAthleteProfile(athletesTable, athlete.ExternalID,
                                       athlete.ProfileURL, outcome.resp, outcome.walk,
                                       outcome.fault, clock)
       IN IF athlete.ExternalID = "" /\ athlete.ProfileURL = ""
          THEN UNCHANGED <<athletesTable, bLog, bCount>>
          ELSE /\ athletesTable' = got.athletes
               /\ bLog' = Append(bLog, [item |-> athlete, err |-> got.err])
               /\ bCount' = countItem(bCount, got.err)
    /\ bIdx' = bIdx + 1
    /\ UNCHANGED clock
    /\ UNCHANGED <<bpc, bOp, bCountries, bItems, bAll, bErr, bRuns>>
    /\ UNCHANGED <<eventsTable, academiesTable, registrationsTable>>
    /\ BatchFrame

\* The loop is over: the count is reported and the batch returns nil
BatchComplete ==
    /\ bpc = "loop"
    /\ bIdx > Len(bItems)
    /\ bCountries = <<>>
    /\ bpc' = "done"
    /\ UNCHANGED <<bOp, bCountries, bItems, bIdx, bCount, bLog, bAll, bErr, bRuns>>
    /\ UNCHANGED <<eventsTable, academiesTable, athletesTable, registrationsTable, clock>>
    /\ BatchFrame

\* The caller has the result; the tables stay
BatchReturn ==
    /\ bpc = "done"
    /\ bpc' = "idle"
    /\ bOp' = ""
    /\ bItems' = <<>>
    /\ bIdx' = 1
    /\ bCount' = 0
    /\ bLog' = <<>>
    /\ bAll' = <<>>
    /\ bErr' = ""
    /\ UNCHANGED <<bCountries, bRuns>>
    /\ UNCHANGED <<eventsTable, academiesTable, athletesTable, registrationsTable, clock>>
    /\ BatchFrame

NextBatch ==
    \/ \E got \in BatchEventLists : BatchScrapeEvents(got)
    \/ \E got \in BatchAthleteLists : BatchScrapeEventAthletes(got)
    \/ \E limit \in 0..1, offset \in 0..1, onlyMissing \in BOOLEAN,
          fault \in {"none", "query"} :
          BatchScrapeAthleteProfiles(limit, offset, onlyMissing, fault)
    \/ \E countries \in BatchCountryLists : BatchScrapeAcademies(countries)
    \/ BatchNextCountry
    \/ \E fault \in {"none", "write"} : BatchSaveEvent(fault)
    \/ \E fault \in {"none", "write"} : BatchSaveAcademy(fault)
    \/ \E fault \in {"none", "athlete_write"} : BatchSaveAthlete(fault)
    \/ \E outcome \in BatchProfileOutcomes : BatchScrapeProfile(outcome)
    \/ BatchComplete
    \/ BatchReturn


(***************************************************************************)
(* The requests an operation sends and the error it returns.               *)
(***************************************************************************)

\* buildEventEndpoint: url.Parse(eventURL), then Scheme + "//" + Host
buildEventEndpoint(eventURL, eventID, suffix) ==
    LET sep == bytesIndex(eventURL, "://")
        scheme == IF sep < 0 THEN "" ELSE Slice(eventURL, 0, sep)
        rest == IF sep < 0 THEN "" ELSE Slice(eventURL, sep + 3, Len(eventURL))
        slash == bytesIndex(rest, "/")
        host == IF slash < 0 THEN rest ELSE Slice(rest, 0, slash)
    IN scheme \o "//" \o host \o "/en/event/" \o eventID \o "/" \o suffix

\* fetchJSON: [ok, payload, sent, failed]; client.Do rejects an endpoint
\* without a scheme before anything is sent
fetchJSON(endpoint, resp) ==
    LET none == [found |-> FALSE, city |-> ""] IN
    IF NewRequestFails(endpoint)
    THEN [err |-> "error creating request", payload |-> none, sent |-> FALSE]
    ELSE IF ~(HasPrefix(endpoint, "http://") \/ HasPrefix(endpoint, "https://"))
    THEN [err |-> "error fetching: unsupported protocol scheme", payload |-> none,
          sent |-> TRUE]
    ELSE IF resp.kind = "transport_error"
    THEN [err |-> "error fetching", payload |-> none, sent |-> TRUE]
    ELSE IF resp.status # StatusOK
    THEN [err |-> "endpoint returned status", payload |-> none, sent |-> TRUE]
    ELSE IF ~resp.decodes
    THEN [err |-> "error decoding JSON", payload |-> none, sent |-> TRUE]
    ELSE [err |-> "", payload |-> resp.payload, sent |-> TRUE]

\* FetchEventDetails: [details, err, requests]. The details hold the name of
\* the JSON-LD event and the city, which falls back to the info panels
FetchEventDetails(eventID, eventURL, detected, page, panels, blocks) ==
    LET url == IF eventURL = "" THEN "https://" \o detected \o "/en/event/" \o eventID
               ELSE eventURL
        id == IF eventID = "" THEN ExtractIDFromURL(url) ELSE eventID
        none == [EventID |-> "", EventURL |-> "", Name |-> "", LocationCity |-> "",
                 InfoPanels |-> FALSE, InfoPageBlocks |-> FALSE]
        pageReq == [what |-> "event page", url |-> url,
                    failed |-> page.kind = "transport_error" \/ page.status # StatusOK]
        ld == parseEventJSONLD(page.ld)
        gotPanels == fetchJSON(buildEventEndpoint(url, id, "getInfoPanelsData"), panels)
        gotBlocks == fetchJSON(buildEventEndpoint(url, id, "getCmsData"), blocks)
        requests(got, what, suffix) ==
            IF got.sent
            THEN <<[what |-> what, url |-> buildEventEndpoint(url, id, suffix),
                    failed |-> got.err # ""]>>
            ELSE <<>>
    IN IF eventID = "" /\ eventURL = ""
       THEN [details |-> none, err |-> "event_id or event_url is required",
             requests |-> <<>>]
       ELSE IF id = ""
       THEN [details |-> none, err |-> "failed to resolve event_id from event_url",
             requests |-> <<>>]
       ELSE IF NewRequestFails(url)
       THEN [details |-> none, err |-> "error creating event request", requests |-> <<>>]
       ELSE IF page.kind = "transport_error"
       THEN [details |-> none, err |-> "error fetching event page",
             requests |-> <<pageReq>>]
       ELSE IF page.status # StatusOK
       THEN [details |-> none, err |-> "event page returned status",
             requests |-> <<pageReq>>]
       ELSE [details |->
                [EventID |-> id, EventURL |-> url,
                 Name |-> IF ld.found THEN ld.ld.name ELSE "",
                 LocationCity |-> IF gotPanels.err = "" /\ gotPanels.payload.found
                                  THEN gotPanels.payload.city ELSE "",
                 InfoPanels |-> gotPanels.err = "",
                 InfoPageBlocks |-> gotBlocks.err = ""],
             err |-> "",
             requests |-> <<pageReq>>
                          \o requests(gotPanels, "info panels", "getInfoPanelsData")
                          \o requests(gotBlocks, "CMS blocks", "getCmsData")]

\* The save loop of ScrapeEventAthletes with no persistence failure
RECURSIVE saveAthletes(_, _, _, _, _)
saveAthletes(athletes, registrations, academies, list, now) ==
    IF list = <<>> THEN [athletes |-> athletes, registrations |-> registrations]
    ELSE LET saved == saveAthleteFromEvent(athletes, registrations, academies,
                                           Head(list), "1", "Open", "none", now)
         IN saveAthletes(saved.athletes, saved.registrations, academies, Tail(list), now)

\* Bound: operations of a behaviour
MaxFetchCalls == 3

\* What a GET of a JSON endpoint can come back with
JSONResponses ==
    {[kind |-> "transport_error", status |-> 0, decodes |-> FALSE,
      payload |-> [found |-> FALSE, city |-> ""]],
     [kind |-> "response", status |-> StatusInternalServerError, decodes |-> FALSE,
      payload |-> [found |-> FALSE, city |-> ""]],
     [kind |-> "response", status |-> StatusOK, decodes |-> TRUE,
      payload |-> [found |-> TRUE, city |-> "Lima"]]}

\* The pages and responses the operations are run on
FetchPages ==
    {p \in ListingPages :
        /\ p.cards = <<>>
        /\ Len(p.script.decoded.items) <= 1
        /\ p.status = StatusOK => p.ld # <<>> /\ p.script.body # "var events = [{]"}
FetchProfileResponses ==
    {r \in ProfileResponses :
        r.kind = "page" => r.page.Pairs = <<>> /\ r.page.Skill # ""
                           /\ r.page.WinsLegend # <<>>}
FetchWalks == {w \in ProfileWalks : w.stats.TotalLosses = 0}
FetchJSONPairs ==
    {pair \in JSONResponses \X JSONResponses :
        (pair[1].kind = "transport_error") # (pair[2].kind = "transport_error")}
FetchAPIResponses ==
    {r \in APIResponses :
        \A i \in 1..Len(r.participants) :
           /\ Len(r.participants) = 1
           /\ Len(r.participants[i].Registrations) = 1
           /\ r.participants[i].Registrations[1].FirstName = "Ana"}

InitFetch ==
    /\ fOp = ""
    /\ fLog = <<>>
    /\ fErr = ""
    /\ fCalls = 0

\* ScrapeAthleteProfile: the profile page, then the match-history walk
FetchProfile(args, resp, walk) ==
    /\ fCalls < MaxFetchCalls
    /\ fCalls' = fCalls + 1
    /\ fOp' = "ScrapeAthleteProfile"
    /\ LET got == ScrapeAthleteProfile(athletesTable, args.externalID, args.profileURL,
                                       resp, walk, "none", clock)
           url == IF args.profileURL = ""
                  THEN "https://smoothcomp.com/en/profile/" \o args.externalID
                  ELSE args.profileURL
           id == IF args.externalID = "" THEN ExtractIDFromURL(url) ELSE args.externalID
           sent == ~(args.profileURL = "" /\ args.externalID = "") /\ id # ""
       IN /\ athletesTable' = got.athletes
          /\ fErr' = got.err
          /\ fLog' = IF ~sent THEN <<>>
                     ELSE <<[what |-> "profile page", url |-> url,
                             failed |-> resp.kind # "page"]>>
                          \o (IF resp.kind # "page" THEN <<>>
                              ELSE <<[what |-> "match history", url |-> EventsURLOf(id),
                                      failed |-> walk.err # ""]>>)
    /\ clock' = clock + 1
    /\ UNCHANGED registrationsTable
    /\ FetchFrame

\* ScrapeEventsByCountry: the listing page
FetchEvents(eventType, countryCode, page) ==
    /\ fCalls < MaxFetchCalls
    /\ fCalls' = fCalls + 1
    /\ fOp' = "ScrapeEventsByCountry"
    /\ LET built == buildEventsURL(eventType, countryCode)
           got == ScrapeEventsByCountry(eventType, countryCode, page, clock)
       IN /\ fErr' = got.err
          /\ fLog' = IF built.err # "" THEN <<>>
                     ELSE <<[what |-> "listing", url |-> built.url,
                             failed |-> page.kind = "transport_error"
                                        \/ page.status # StatusOK]>>
    /\ UNCHANGED <<athletesTable, registrationsTable, clock>>
    /\ FetchFrame

\* ScrapeEventAthletes: the participants request, then the save loop
FetchAthletes(eventID, eventURL, detected, resp) ==
    /\ fCalls < MaxFetchCalls
    /\ fCalls' = fCalls + 1
    /\ fOp' = "ScrapeEventAthletes"
    /\ LET subdomain == IF eventURL # "" THEN ExtractSubdomainFromURL(eventURL)
                        ELSE detected
           apiURL == BuildAPIURL(subdomain, eventID)
           err == IF NewRequestFails(eventID) THEN "error creando request"
                  ELSE IF resp.kind = "transport_error" THEN "error haciendo request"
                  ELSE IF resp.status # StatusOK THEN "API retorno status"
                  ELSE IF ~resp.decodes THEN "error parseando JSON"
                  ELSE ""
           saved == saveAthletes(athletesTable, registrationsTable, academiesTable,
                                 extractAthletes(resp.participants), clock)
       IN /\ fErr' = err
          /\ fLog' = IF NewRequestFails(eventID) THEN <<>>
                     ELSE <<[what |-> "participants", url |-> apiURL,
                             failed |-> resp.kind = "transport_error"
                                        \/ resp.status # StatusOK]>>
          /\ athletesTable' = IF err = "" THEN saved.athletes ELSE athletesTable
          /\ registrationsTable' = IF err = "" THEN saved.registrations
                                   ELSE registrationsTable
    /\ clock' = clock + 1
    /\ FetchFrame

\* FetchEventDetails: the event page, the info panels, the CMS blocks
FetchDetails(eventID, eventURL, detected, page, panels, blocks) ==
    /\ fCalls < MaxFetchCalls
    /\ fCalls' = fCalls + 1
    /\ fOp' = "FetchEventDetails"
    /\ LET got == FetchEventDetails(eventID, eventURL, detected, page, panels, blocks)
       IN /\ fErr' = got.err
          /\ fLog' = got.requests
    /\ UNCHANGED <<athletesTable, registrationsTable, clock>>
    /\ FetchFrame

NextFetch ==
    \/ \E args \in ProfileArgs, resp \in FetchProfileResponses, walk \in FetchWalks :
          FetchProfile(args, resp, walk)
    \/ \E args \in EventArgs, page \in FetchPages : FetchEvents(args[1], args[2], page)
    \/ \E eventID \in EventIDs, eventURL \in EventURLs :
          \E detected \in (IF eventURL = "" THEN DetectEventSubdomainResults(eventID)
                           ELSE {""}),
             resp \in FetchAPIResponses :
             FetchAthletes(eventID, eventURL, detected, resp)
    \/ \E eventID \in EventIDs \cup {""}, eventURL \in EventURLs :
          \E detected \in (IF eventURL = "" THEN DetectEventSubdomainResults(eventID)
                           ELSE {""}),
             page \in {p \in FetchPages : p.script.body = "<html></html>"},
             pair \in FetchJSONPairs :
             FetchDetails(eventID, eventURL, detected, page, pair[1], pair[2])


(***************************************************************************)
(* The scheduler: every cron trigger runs runScrapingJob in a goroutine of *)
(* its own.                                                                *)
(***************************************************************************)

\* Bound: cron triggers of a behaviour
MaxTriggers == 3

Triggers == 1..MaxTriggers

\* s.mu.Lock() with the lock granted whoever holds it
muFree_Always(mu) == TRUE

\* s.mu.Lock() returns when nobody holds the mutex
muFree(mu) == mu = 0

\* The flag after the deferred function, were it to run only on success
flagAfterRun_OnError(flag, err) == IF err = "" THEN FALSE ELSE flag

\* The flag after the deferred function of runScrapingJob, which runs on
\* every return
flagAfterRun(flag, err) == FALSE

InitSched ==
    /\ spc = [j \in Triggers |-> "idle"]
    /\ sSeen = [j \in Triggers |-> FALSE]
    /\ sResult = [j \in Triggers |-> ""]
    /\ sIsRunning = FALSE
    /\ sMu = 0

\* The cron entry fires: a goroutine enters runScrapingJob
JobTrigger(j) ==
    /\ spc[j] = "idle"
    /\ spc' = [spc EXCEPT ![j] = "lock"]
    /\ UNCHANGED <<sSeen, sResult, sIsRunning, sMu>>
    /\ SchedFrame

\* s.mu.Lock()
JobLock(j) ==
    /\ spc[j] = "lock"
    /\ muFree(sMu)
    /\ sMu' = j
    /\ spc' = [spc EXCEPT ![j] = "read"]
    /\ UNCHANGED <<sSeen, sResult, sIsRunning>>
    /\ SchedFrame

\* The test of s.isRunning
JobRead(j) ==
    /\ spc[j] = "read"
    /\ sSeen' = [sSeen EXCEPT ![j] = sIsRunning]
    /\ spc' = [spc EXCEPT ![j] = "branch"]
    /\ UNCHANGED <<sResult, sIsRunning, sMu>>
    /\ SchedFrame

\* The branch: already running, unlock and return; else set the flag and
\* unlock
JobBranch(j) ==
    /\ spc[j] = "branch"
    /\ IF sSeen[j]
       THEN /\ spc' = [spc EXCEPT ![j] = "skipped"]
            /\ UNCHANGED sIsRunning
       ELSE /\ spc' = [spc EXCEPT ![j] = "run"]
            /\ sIsRunning' = TRUE
    /\ sMu' = IF sMu = j THEN 0 ELSE sMu
    /\ UNCHANGED <<sSeen, sResult>>
    /\ SchedFrame

\* s.scraper.ScrapeAll() returns nil or an error
JobScrapeAll(j, err) ==
    /\ spc[j] = "run"
    /\ sResult' = [sResult EXCEPT ![j] = err]
    /\ spc' = [spc EXCEPT ![j] = "defer"]
    /\ UNCHANGED <<sSeen, sIsRunning, sMu>>
    /\ SchedFrame

\* The deferred function: lock, reset the flag, unlock
JobDeferred(j) ==
    /\ spc[j] = "defer"
    /\ muFree(sMu)
    /\ sIsRunning' = flagAfterRun(sIsRunning, sResult[j])
    /\ spc' = [spc EXCEPT ![j] = "done"]
    /\ UNCHANGED <<sSeen, sResult, sMu>>
    /\ SchedFrame

NextSched ==
    \/ \E j \in Triggers : JobTrigger(j)
    \/ \E j \in Triggers : JobLock(j)
    \/ \E j \in Triggers : JobRead(j)
    \/ \E j \in Triggers : JobBranch(j)
    \/ \E j \in Triggers, err \in {"", "scrape failed"} : JobScrapeAll(j, err)
    \/ \E j \in Triggers : JobDeferred(j)

\* The goroutines are scheduled: a goroutine that can take its next step
\* takes it, sync.Mutex hands the lock to every waiter in the end, and
\* ScrapeAll is not assumed to return
FairSched ==
    \A j \in Triggers :
        /\ SF_vars(JobLock(j))
        /\ WF_vars(JobRead(j))
        /\ WF_vars(JobBranch(j))
        /\ SF_vars(JobDeferred(j))

(***************************************************************************)
(* Specifications                                                          *)
(***************************************************************************)

Init ==
    /\ InitHost /\ InitArray /\ InitEvents /\ InitAthletes /\ InitWalk
    /\ InitReconcile /\ InitProfile /\ InitUpsert
    /\ eventDetailsTable = <<>>
    /\ clock = 1
    /\ InitConcurrent
    /\ InitBatch
    /\ InitFetch
    /\ InitSched

SpecHost == Init /\ [][NextHost]_vars

SpecArray == Init /\ [][NextArray]_vars

SpecEvents == Init /\ [][NextEvents]_vars

SpecAthletes == Init /\ [][NextAthletes]_vars

SpecWalk == Init /\ [][NextWalk]_vars

\* The goroutine running fetchProfileEventStats is scheduled and every request
\* it sends is answered (or times out)
SpecWalkFair == SpecWalk /\ WF_vars(WalkPage) /\ WF_vars(WalkRequestError)

SpecReconcile == Init /\ [][NextReconcile]_vars

SpecProfile == Init /\ [][NextProfile]_vars

SpecUpsert == Init /\ [][NextUpsert]_vars

SpecConcurrent == Init /\ [][NextConcurrent]_vars

SpecBatch == Init /\ [][NextBatch]_vars

SpecFetch == Init /\ [][NextFetch]_vars

SpecSched == Init /\ [][NextSched]_vars

SpecSchedFair == SpecSched /\ FairSched

(***************************************************************************)
(* Claims about the Host Resolver (checked under SpecHost)                 *)
(***************************************************************************)

\* The run returned at loop iteration i: it is the last iteration and the
\* loop did not run off the end of the list
ReturnedAt(i) == hpc = "done" /\ i = Len(hLog) /\ hIdx = i

\* C1: the candidates are probed in the list's order, primary domain first; no
\* candidate before the last probed one was accepted (so nothing is probed
\* after an acceptance), and when the last one was accepted it is the result.
Thm_C1 ==
    LET k == Len(hProbed) IN
    /\ \A i \in 1..k : hProbed[i] = BaseURLOf(subdomains[i])
    /\ \A i \in 1..(k - 1) : ~ProbeAccepted(hLog[i], hProbed[i])
    /\ hpc = "probing" => \A i \in 1..k : ~ProbeAccepted(hLog[i], hProbed[i])
    /\ (hpc = "done" /\ k > 0 /\ ProbeAccepted(hLog[k], hProbed[k]))
          => hResult = hProbed[k]

\* C1's example: the primary domain is rejected, adcc answers 200
Wit_C1 ==
    /\ hpc = "done"
    /\ hProbed = <<"smoothcomp.com", "adcc.smoothcomp.com">>
    /\ hLog[1].status = StatusNotFound
    /\ hLog[2].status = StatusOK
    /\ hResult = "adcc.smoothcomp.com"

\* The host a redirect target names: the scheme is dropped, the host ends at
\* the first "/"
RECURSIVE UpToSlash(_)
UpToSlash(s) ==
    IF s = "" \/ Head(s) = "/" THEN "" ELSE Head(s) \o UpToSlash(Tail(s))

LocationHost(location) ==
    IF HasPrefix(location, "https://") THEN UpToSlash(Slice(location, 8, Len(location)))
    ELSE IF HasPrefix(location, "http://") THEN UpToSlash(Slice(location, 7, Len(location)))
    ELSE UpToSlash(location)

\* C2: a 301/302 response makes the probed candidate accepted if and only if
\* its Location names the probed host.
CE_C2 ==
    \A i \in 1..Len(hProbed) :
        (hLog[i].kind = "response"
         /\ hLog[i].status \in {StatusMovedPermanently, StatusFound})
        => (ReturnedAt(i) <=> LocationHost(hLog[i].location) = hProbed[i])

\* C3: a run always ends with a host; a rejected probe (transport error or a
\* status that is not accepted) moves on to the next candidate, and when every
\* candidate was rejected the whole list was tried and the result is the
\* primary domain.
Thm_C3 ==
    /\ hpc = "probing" => hIdx = Len(hLog) + 1
    /\ hpc = "done" =>
          /\ hResult \in {BaseURLOf(subdomains[i]) : i \in 1..Len(subdomains)}
          /\ (\A i \in 1..Len(hLog) :
                 hLog[i].kind # "response" \/ ~ProbeAccepted(hLog[i], hProbed[i]))
             => /\ Len(hLog) = Len(subdomains)
                /\ hResult = "smoothcomp.com"

\* every candidate was probed and rejected, one of them by a transport error
Wit_C3 ==
    /\ hpc = "done"
    /\ Len(hProbed) = Len(subdomains)
    /\ hResult = "smoothcomp.com"
    /\ \E i \in 1..Len(hLog) : hLog[i].kind = "transport_error"
    /\ \E i \in 1..Len(hLog) : hLog[i].status = StatusNotFound
    /\ \A i \in 1..Len(hLog) : ~ProbeAccepted(hLog[i], hProbed[i])

(***************************************************************************)
(* Claims about extractEventsArray (checked under SpecArray)               *)
(***************************************************************************)

\* C4: when the page holds the marker followed by a complete bracket-balanced
\* array (with brackets and escaped quotes inside its strings), the extractor
\* returns exactly the bytes from the array's "[" through the "]" closing it.
Thm_C4 ==
    (aPhase = "extracted" /\ aEnd >= 0 /\ Contains(aBody, "var events"))
    => aResult = [err |-> "", bytes |-> Slice(aBody, aOpen, aEnd + 1)]

\* an array whose string holds an escaped quote and a closing bracket,
\* followed by a stray "]" in the page
Wit_C4 ==
    /\ aPhase = "extracted"
    /\ aEnd >= 0
    /\ aResult.err = ""
    /\ aResult.bytes = "[\"\\\"]\"]"
    /\ Len(aBody) > aEnd + 1
    /\ At(aBody, aEnd + 1) = "]"

(***************************************************************************)
(* Claims about event list extraction (checked under SpecEvents)           *)
(***************************************************************************)

\* The listing was fetched with status 200 and extraction has run
ListingFetched ==
    /\ epc \in {"saving", "done"}
    /\ ePage.kind = "response"
    /\ ePage.status = StatusOK

HasNonSpace(s) == \E i \in 0..(Len(s) - 1) : ~IsSpace(At(s, i))

\* The display names (trimmed titles) of the page's embedded records that
\* have a title and a URL; none when the array is missing or does not decode
EmbeddedNames ==
    LET Complete(item) == HasNonSpace(item.title) /\ HasNonSpace(item.url)
        items == SelectSeq(ePage.script.decoded.items, Complete)
    IN IF ePage.script.decoded.ok /\ Contains(ePage.script.body, "var events")
       THEN [i \in 1..Len(items) |-> TrimSpace(items[i].title)] ELSE <<>>

\* The display names of the page's markup cards that have a title and a link
CardNames ==
    LET Href(card) == IF card.titleHref = "" THEN card.imageHref ELSE card.titleHref
        Complete(card) == HasNonSpace(card.title) /\ HasNonSpace(Href(card))
        cards == SelectSeq(ePage.cards, Complete)
    IN [i \in 1..Len(cards) |-> TrimSpace(cards[i].title)]

\* The display name of the page's JSON-LD SportsEvent object, if any
JSONLDNames ==
    LET got == parseEventJSONLD(ePage.ld)
    IN IF got.found /\ HasNonSpace(got.ld.name) /\ HasNonSpace(got.ld.url)
       THEN <<got.ld.name>> ELSE <<>>

ReturnedNames == [i \in 1..Len(eEvents) |-> eEvents[i].Name]

CE_C6 ==
    (epc = "done" /\ ListingFetched
     /\ EmbeddedNames = <<>> /\ JSONLDNames = <<>> /\ CardNames = <<>>)
    => eErr # ""

\* C7: every record handed to SaveEvent, and every persisted row, has a
\* non-empty name and a non-empty URL; a partial record on the page is no
\* error of the run.
Thm_C7 ==
    /\ \A i \in 1..Len(eSaveCalls) :
          eSaveCalls[i].event.Name # "" /\ eSaveCalls[i].event.EventURL # ""
    /\ \A i \in 1..Len(eventsTable) :
          eventsTable[i].Name # "" /\ eventsTable[i].EventURL # ""
    /\ (epc = "done" /\ ListingFetched) => eErr = ""

\* two embedded records, one of them without a URL: one SaveEvent call
Wit_C7 ==
    /\ epc = "done"
    /\ eStrategy = "embedded"
    /\ Len(ePage.script.decoded.items) = 2
    /\ \E i \in 1..2 : ~HasNonSpace(ePage.script.decoded.items[i].url)
    /\ Len(eSaveCalls) = 1
    /\ eSaveCalls[1].err = ""
    /\ Len(eventsTable) = 1

(***************************************************************************)
(* Claims about event athlete extraction (checked under SpecAthletes)      *)
(***************************************************************************)

\* A registration without the minimum data: no athlete identifier (user_id
\* absent decodes to 0) or no name at all
MissingMinimum(reg) == reg.UserID = 0 \/ (reg.FirstName = "" /\ reg.LastName = "")

\* The athletes built from the registrations of the response that lack the
\* minimum data
BelowMinimum ==
    {athleteOf(pResp.participants[c].Registrations[r],
               parseCategory(pResp.participants[c].Name)) :
        <<c, r>> \in {cr \in (1..Len(pResp.participants)) \X (1..MaxRegs + 1) :
                        /\ cr[2] <= Len(pResp.participants[cr[1]].Registrations)
                        /\ MissingMinimum(pResp.participants[cr[1]].Registrations[cr[2]])}}

\* C8: a registration whose athlete identifier is missing or whose first and
\* last name are both empty is never passed to saveAthleteFromEvent.
CE_C8 == \A i \in 1..Len(pSaveCalls) : pSaveCalls[i].data \notin BelowMinimum

(***************************************************************************)
(* Claims about the match-history statistics (checked under SpecWalk)      *)
(***************************************************************************)

Lowered(match) == ToLower(TrimSpace(match.Outcome))

\* The match is a bye or a walkover: not a real bout
NotABout(match) == Contains(Lowered(match), "bye") \/ Contains(Lowered(match), "walkover")

\* For each match of the endpoint, whether it is a real bout
RealBout == [match \in Matches |-> ~NotABout(match)]

IsBout(match) == RealBout[match]

\* The history of the example: win by submission, win by points, loss by
\* decision, bye
ExampleHistory ==
    <<[IsWinner |-> TRUE, Outcome |-> "Submission"],
      [IsWinner |-> TRUE, Outcome |-> "points"],
      [IsWinner |-> FALSE, Outcome |-> "Decision"],
      [IsWinner |-> TRUE, Outcome |-> " BYE "]>>

ExampleStats ==
    [TotalWins |-> 2, TotalLosses |-> 1,
     WinsBySubmission |-> 1, WinsByPoints |-> 1, WinsByDecision |-> 0, WinsByDQ |-> 0,
     LossesBySubmission |-> 0, LossesByPoints |-> 0, LossesByDecision |-> 1,
     LossesByDQ |-> 0]

\* C9: the walk totals of any match history are the totals of that history
\* without its bye and walkover matches, whatever their is_winner flag (so
\* such a match changes no counter), and the history [win by submission, win
\* by points, loss by decision, bye] yields wins 2, by submission 1, by
\* points 1, losses 1, by decision 1 and 0 everywhere else.
Thm_C9 ==
    /\ wStats = applyMatches(ZeroStats, SelectSeq(wMatches, IsBout))
    /\ wStats.TotalWins + wStats.TotalLosses
         = Cardinality({i \in 1..Len(wMatches) : IsBout(wMatches[i])})
    /\ wMatches = ExampleHistory => wStats = ExampleStats

\* The walk returned the totals of the example history
Wit_C9 == wpc = "done" /\ wErr = "" /\ wMatches = ExampleHistory

\* The keywords of the sub-categories, in the order they are tried
SubCategories == <<"submission", "decision", "points", "dq">>

KeywordHit(outcome, category) ==
    IF category = "dq"
    THEN Contains(outcome, "dq") \/ Contains(outcome, "disqualification")
    ELSE Contains(outcome, category)

\* The first sub-category, in order, with a keyword in the match's outcome
\* ("" when there is none)
SubCategoryOf(match) ==
    LET hits == {k \in 1..Len(SubCategories) : KeywordHit(Lowered(match), SubCategories[k])}
    IN IF hits = {} THEN ""
       ELSE SubCategories[CHOOSE k \in hits : \A j \in hits : k <= j]

\* For each match of the endpoint, its sub-category
SubCategory == [match \in Matches |-> SubCategoryOf(match)]

\* Number of bouts of the history on one side (won or lost) in a sub-category
Bouts(won, category) ==
    Cardinality({i \in 1..Len(wMatches) :
                    /\ IsBout(wMatches[i])
                    /\ wMatches[i].IsWinner = won
                    /\ SubCategory[wMatches[i]] = category})

BoutsOfSide(won) ==
    Cardinality({i \in 1..Len(wMatches) :
                    IsBout(wMatches[i]) /\ wMatches[i].IsWinner = won})

\* C10: every bout counts once in the total of its side and in at most one
\* sub-category of that side, the first in the order submission, decision,
\* points, disqualification with a keyword in the outcome; so each total is
\* the sum of its four sub-categories plus the unclassified bouts of the side.
Thm_C10 ==
    /\ wStats.TotalWins = BoutsOfSide(TRUE)
    /\ wStats.TotalLosses = BoutsOfSide(FALSE)
    /\ wStats.WinsBySubmission = Bouts(TRUE, "submission")
    /\ wStats.WinsByDecision = Bouts(TRUE, "decision")
    /\ wStats.WinsByPoints = Bouts(TRUE, "points")
    /\ wStats.WinsByDQ = Bouts(TRUE, "dq")
    /\ wStats.LossesBySubmission = Bouts(FALSE, "submission")
    /\ wStats.LossesByDecision = Bouts(FALSE, "decision")
    /\ wStats.LossesByPoints = Bouts(FALSE, "points")
    /\ wStats.LossesByDQ = Bouts(FALSE, "dq")
    /\ wStats.TotalWins = wStats.WinsBySubmission + wStats.WinsByDecision
                          + wStats.WinsByPoints + wStats.WinsByDQ + Bouts(TRUE, "")
    /\ wStats.TotalLosses = wStats.LossesBySubmission + wStats.LossesByDecision
                            + wStats.LossesByPoints + wStats.LossesByDQ + Bouts(FALSE, "")

\* The walk returned after a lost bout whose outcome names three keywords, an
\* unclassified lost bout and a won bout by disqualification
Wit_C10 ==
    /\ wpc = "done"
    /\ wErr = ""
    /\ wMatches = <<[IsWinner |-> FALSE, Outcome |-> "points, DQ after decision"],
                    [IsWinner |-> FALSE, Outcome |-> ""],
                    [IsWinner |-> TRUE, Outcome |-> "Disqualification"]>>
    /\ wStats.LossesByDecision = 1
    /\ wStats.TotalLosses = 2
    /\ wStats.WinsByDQ = 1

(***************************************************************************)
(* Claims about the statistics reconciliation (checked under SpecReconcile)*)
(***************************************************************************)

LastOp == IF cOps = <<>> THEN "" ELSE cOps[Len(cOps)]

LastTwoOps(op) ==
    Len(cOps) >= 2 /\ cOps[Len(cOps)] = op /\ cOps[Len(cOps) - 1] = op

\* C11: the merge sets each of the ten statistics fields on its own: to the
\* walk's count when that count is positive, whatever the page summary held,
\* and to the page summary's value (present or absent) otherwise.
Thm_C11 ==
    LastOp = "merge" =>
        /\ \A i \in 1..Len(StatFields) :
              cOut[StatFields[i]] =
                  IF cStats[StatFields[i]] > 0 THEN IntOf(cStats[StatFields[i]])
                  ELSE cPrev[StatFields[i]]
        /\ cOut.BeltRank = cPrev.BeltRank

\* A merge that replaced a present total by the walk's different count, kept
\* a present total the walk had no count for, and left an absent field absent
Wit_C11 ==
    /\ cOps = <<"merge">>
    /\ cStats.TotalWins > 0
    /\ ~cPrev.TotalWins.null
    /\ cPrev.TotalWins.value # cStats.TotalWins
    /\ cStats.TotalLosses = 0
    /\ cPrev.TotalLosses = IntOf(2)
    /\ cOut.TotalLosses = IntOf(2)
    /\ cOut.WinsByDQ.null

\* C12: merging again with the same walk totals changes nothing:
\* merge(merge(d, s), s) = merge(d, s).
Thm_C12 == LastTwoOps("merge") => cOut = cPrev

\* Two merges of the same walk totals over a page summary whose present total
\* the walk overrides
Wit_C12 ==
    /\ cOps = <<"merge", "merge">>
    /\ cIn.TotalWins = IntOf(2)
    /\ cStats.TotalWins = 1
    /\ cOut.TotalWins = IntOf(1)

ValueOrZero(data, field) == IF data[field].null THEN 0 ELSE data[field].value

WinsBreakdown(data) ==
    ValueOrZero(data, "WinsBySubmission") + ValueOrZero(data, "WinsByDecision")
    + ValueOrZero(data, "WinsByPoints") + ValueOrZero(data, "WinsByDQ")

LossesBreakdown(data) ==
    ValueOrZero(data, "LossesBySubmission") + ValueOrZero(data, "LossesByDecision")
    + ValueOrZero(data, "LossesByPoints") + ValueOrZero(data, "LossesByDQ")

\* C13: the backfill sets a total that is absent or zero to the sum n of the
\* present sub-categories of its side when n > 0, leaves a total that is
\* present and non-zero as it is, and applied again changes nothing.
Thm_C13 ==
    /\ LastOp = "fill" =>
          /\ ValueOrZero(cPrev, "TotalWins") = 0 /\ WinsBreakdown(cPrev) > 0
                => cOut.TotalWins = IntOf(WinsBreakdown(cPrev))
          /\ ValueOrZero(cPrev, "TotalLosses") = 0 /\ LossesBreakdown(cPrev) > 0
                => cOut.TotalLosses = IntOf(LossesBreakdown(cPrev))
          /\ ValueOrZero(cPrev, "TotalWins") # 0 => cOut.TotalWins = cPrev.TotalWins
          /\ ValueOrZero(cPrev, "TotalLosses") # 0 => cOut.TotalLosses = cPrev.TotalLosses
    /\ LastTwoOps("fill") => cOut = cPrev

\* Two backfills of a page summary with a zero total of wins and two wins by
\* points
Wit_C13 ==
    /\ cOps = <<"fill", "fill">>
    /\ cIn.TotalWins = IntOf(0)
    /\ cIn.WinsByPoints = IntOf(2)
    /\ cOut.TotalWins = IntOf(2)

(***************************************************************************)
(* Claims about the athlete profile scrape (checked under SpecProfile)     *)
(***************************************************************************)

\* The persisted row of the athlete the last ScrapeAthleteProfile call named
ProfiledAthlete ==
    athletesTable[FirstRow({i \in 1..Len(athletesTable) :
                               athletesTable[i].ExternalID = qID})]

\* The last pipeline step left every non-zero statistics field non-zero
PipelineKeepsNonZero ==
    qStep \in {"legend", "labels", "fights", "fill", "merge"}
        => \A i \in 1..Len(StatFields) :
              (~qPrev[StatFields[i]].null /\ qPrev[StatFields[i]].value # 0)
                  => (~qData[StatFields[i]].null /\ qData[StatFields[i]].value # 0)

\* The last write of updateAthleteProfile left every non-zero persisted
\* statistics field non-zero
WriteKeepsNonZero ==
    qStep = "update"
        => \A i \in 1..Len(StatFields) :
              qBefore[StatFields[i]] # 0 => ProfiledAthlete[StatFields[i]] # 0

\* C14: a statistics field that holds a non-zero value is never replaced by
\* zero, neither by a step of the reconciliation pipeline (legend extraction,
\* label/value extraction, fight-badge counting, backfill, merge with the walk
\* totals) nor by updateAthleteProfile's write onto the persisted athlete in a
\* later run.
CE_C14 == PipelineKeepsNonZero /\ WriteKeepsNonZero

(***************************************************************************)
(* Claims about the upserts (checked under SpecUpsert)                     *)
(***************************************************************************)

\* The rows of a table a lookup of the last call's natural key matches
AcademyKeyRows(table) ==
    {i \in 1..Len(table) : table[i].ExternalID = uLast.rec.ExternalID}
EventKeyRows(table) ==
    {i \in 1..Len(table) :
        IF uLast.rec.EventURL = "" /\ uLast.rec.ExternalID # ""
        THEN table[i].ExternalID = uLast.rec.ExternalID
        ELSE table[i].EventURL = uLast.rec.EventURL}
EventDetailKeyRows(table) ==
    {i \in 1..Len(table) : table[i].EventID = uLast.rec.EventID}
AthleteKeyRows(table) ==
    {i \in 1..Len(table) : table[i].ExternalID = uLast.rec.SmoothCompID}
RegistrationKeyRows(table, athletes) ==
    {i \in 1..Len(table) :
        /\ \E a \in AthleteKeyRows(athletes) : table[i].AthleteID = athletes[a].ID
        /\ table[i].EventID = uLast.eventID
        /\ table[i].Division = uLast.rec.Division
        /\ table[i].AgeCategory = uLast.rec.AgeCategory
        /\ table[i].Rank = uLast.rec.Rank
        /\ table[i].WeightClass = uLast.rec.WeightClass}

\* The rows of the given store that hold the last call's natural key, as
\* <<table, primary key>> pairs
KeyRowIDs(store) ==
    IF uLast.op = "academy"
    THEN {<<"academies", store.academies[i].ID>> : i \in AcademyKeyRows(store.academies)}
    ELSE IF uLast.op = "event"
    THEN {<<"events", store.events[i].ID>> : i \in EventKeyRows(store.events)}
    ELSE IF uLast.op = "eventDetails"
    THEN {<<"eventDetails", store.eventDetails[i].ID>> :
             i \in EventDetailKeyRows(store.eventDetails)}
    ELSE {<<"athletes", store.athletes[i].ID>> : i \in AthleteKeyRows(store.athletes)}
         \cup {<<"registrations", store.registrations[i].ID>> :
                  i \in RegistrationKeyRows(store.registrations, store.athletes)}

\* The last two calls were the same operation on an identical record, no
\* persistence step failed, and the first of them inserted
CreatedThenRepeated ==
    /\ uPrev.op # "" /\ uPrev.op = uLast.op
    /\ uPrev.rec = uLast.rec /\ uPrev.eventID = uLast.eventID
    /\ uPrev.fault = "none" /\ uLast.fault = "none"
    /\ uPrev.err = "" /\ uPrev.added > 0

\* C15: when SaveAcademy, SaveEvent, SaveEventDetails or saveAthleteFromEvent
\* is called twice in sequence with an identical record and the first call
\* created the row, the second call succeeds, inserts nothing and writes the
\* row the first call left: exactly one row holds the record's natural key
\* (for saveAthleteFromEvent, one athlete and one registration).
Thm_C15 ==
    CreatedThenRepeated =>
        /\ uLast.err = ""
        /\ uLast.added = 0
        /\ KeyRowIDs(Store) = KeyRowIDs(uBefore)
        /\ Cardinality(KeyRowIDs(Store)) = IF uLast.op = "athlete" THEN 2 ELSE 1
        /\ Store # uBefore

\* C15's case for saveAthleteFromEvent: the first call created the athlete
\* and the registration, the second call found both
Wit_C15 == CreatedThenRepeated /\ uLast.op = "athlete" /\ uPrev.added = 2

\* C16: saveAthleteFromEvent is all-or-nothing. A failing athlete lookup,
\* athlete create/update or registration create/update makes the call return
\* an error; a call that returned an error left the athletes and the
\* registrations as they were; a call that returned nil wrote both its
\* athlete and its registration.
Thm_C16 ==
    uLast.op = "athlete" =>
        /\ uLast.fault \in {"athlete_query", "athlete_write", "reg_write"}
              => uLast.err # ""
        /\ uLast.err # "" => Store = uBefore
        /\ uLast.err = "" => /\ athletesTable # uBefore.athletes
                             /\ registrationsTable # uBefore.registrations

\* C16's case: the registration write failed after the athlete write of an
\* athlete that was stored before
Wit_C16 ==
    /\ uLast.op = "athlete" /\ uLast.fault = "reg_write" /\ uLast.err # ""
    /\ AthleteKeyRows(uBefore.athletes) # {}

\* The composite key of a registration row
RegistrationKey(r) ==
    <<r.AthleteID, r.EventID, r.Division, r.AgeCategory, r.Rank, r.WeightClass>>

\* The registration rows of the athlete, event and bracket a call named
BracketRows(call) ==
    {i \in 1..Len(registrationsTable) :
        /\ \E a \in 1..Len(athletesTable) :
              /\ athletesTable[a].ExternalID = call.rec.SmoothCompID
              /\ athletesTable[a].ID = registrationsTable[i].AthleteID
        /\ RegistrationKey(registrationsTable[i])
              = <<registrationsTable[i].AthleteID, call.eventID, call.rec.Division,
                  call.rec.AgeCategory, call.rec.Rank, call.rec.WeightClass>>}

\* No two registration rows hold the same composite key
OneRowPerBracket ==
    \A i, j \in 1..Len(registrationsTable) :
        RegistrationKey(registrationsTable[i]) = RegistrationKey(registrationsTable[j])
            => i = j

\* Two successful calls for one athlete and event that differ in a bracket
\* descriptor left one row each
OtherBracketOtherRow ==
    (/\ uPrev.op = "athlete" /\ uLast.op = "athlete"
     /\ uPrev.err = "" /\ uLast.err = ""
     /\ uPrev.rec.SmoothCompID = uLast.rec.SmoothCompID
     /\ uPrev.eventID = uLast.eventID
     /\ <<uPrev.rec.Division, uPrev.rec.AgeCategory, uPrev.rec.Rank, uPrev.rec.WeightClass>>
           # <<uLast.rec.Division, uLast.rec.AgeCategory, uLast.rec.Rank,
               uLast.rec.WeightClass>>)
        => /\ BracketRows(uPrev) # {} /\ BracketRows(uLast) # {}
           /\ BracketRows(uPrev) \cap BracketRows(uLast) = {}

\* C17: after any sequence of saveAthleteFromEvent calls at most one
\* registration row exists per (athlete, event, division, age category, rank,
\* weight class), and two calls for the same athlete and event that differ in
\* a bracket descriptor produce two distinct rows.
CE_C17 == OneRowPerBracket /\ OtherBracketOtherRow

\* The saved row kept the found row's primary key and creation timestamp and
\* holds the incoming values of the given fields
KeptAndTaken(found, saved, incoming, fields) ==
    /\ saved.ID = found.ID
    /\ saved.CreatedAt = found.CreatedAt
    /\ \A f \in fields : saved[f] = incoming[f]

\* The last call was a successful SaveAcademy that found a row
AcademyUpdated == uLast.op = "academy" /\ uLast.err = "" /\ uLast.added = 0
AcademyKept ==
    AcademyUpdated =>
        LET k == FirstRow(AcademyKeyRows(uBefore.academies))
        IN KeptAndTaken(uBefore.academies[k], academiesTable[k], uLast.rec,
                        {"ExternalID", "Name", "Country", "ScrapedAt"})

\* The last call was a successful SaveEvent that found a row
EventUpdated == uLast.op = "event" /\ uLast.err = "" /\ uLast.added = 0
EventKept ==
    EventUpdated =>
        LET k == FirstRow(EventKeyRows(uBefore.events))
        IN KeptAndTaken(uBefore.events[k], eventsTable[k], uLast.rec,
                        DOMAIN EmptyEvent \ {"ID", "CreatedAt", "UpdatedAt"})

\* The last call was a successful SaveEventDetails that found a row
EventDetailUpdated == uLast.op = "eventDetails" /\ uLast.err = "" /\ uLast.added = 0
EventDetailKept ==
    EventDetailUpdated =>
        LET k == FirstRow({i \in 1..Len(uBefore.eventDetails) :
                              \/ uBefore.eventDetails[i].EventID = uLast.rec.EventID
                              \/ /\ uLast.rec.EventURL # ""
                                 /\ uBefore.eventDetails[i].EventURL = uLast.rec.EventURL})
        IN KeptAndTaken(uBefore.eventDetails[k], eventDetailsTable[k], uLast.rec,
                        {"EventID", "EventURL", "Name", "Description"})

\* The last call was a successful saveAthleteFromEvent that found the athlete
AthleteUpdated ==
    /\ uLast.op = "athlete" /\ uLast.err = ""
    /\ AthleteKeyRows(uBefore.athletes) # {}
AthleteKept ==
    AthleteUpdated =>
        LET k == FirstRow(AthleteKeyRows(uBefore.athletes))
        IN KeptAndTaken(uBefore.athletes[k], athletesTable[k], uLast.rec,
                        {"FirstName", "LastName", "FullName", "CountryCode", "BirthYear",
                         "Age", "ProfileURL", "ImageURL", "AffiliationName", "Gender"})

\* The last call was a successful saveAthleteFromEvent whose registration
\* lookup found a row
RegistrationUpdated ==
    /\ uLast.op = "athlete" /\ uLast.err = "" /\ uLast.fault = "none"
    /\ RegistrationKeyRows(uBefore.registrations, uBefore.athletes) # {}
RegistrationKept ==
    RegistrationUpdated =>
        LET k == FirstRow(RegistrationKeyRows(uBefore.registrations, uBefore.athletes))
        IN KeptAndTaken(uBefore.registrations[k], registrationsTable[k], uLast.rec,
                        {"Division", "AgeCategory", "Rank", "WeightClass",
                         "ActualWeight", "Seed", "Ranking"})

\* The four upserts that copy the creation timestamp forward
LoadedRowsKept == AcademyKept /\ EventKept /\ EventDetailKept /\ AthleteKept

\* C19: when an upsert finds an existing row for the natural key, the saved
\* row keeps that row's primary key and creation timestamp and takes the
\* incoming values of the other fields, for academies, events, event details,
\* athletes and event registrations.
CE_C19 == LoadedRowsKept /\ RegistrationKept

\* The academies whose name is the club name of the last call's athlete
NamedAcademies ==
    {i \in 1..Len(uBefore.academies) :
        uBefore.academies[i].Name = uLast.rec.AcademyName}

\* The athlete row the last call wrote
SavedAthlete == athletesTable[FirstRow(AthleteKeyRows(athletesTable))]

\* C20: saveAthleteFromEvent does not fail because the athlete's academy name
\* resolves to no persisted academy: with no persistence failure the call
\* returns nil, and the saved athlete's academy association is the external id
\* of the academy the lookup by name found, empty when the lookup found none
\* (an athlete given no academy name keeps the association it had).
Thm_C20 ==
    (uLast.op = "athlete" /\ uLast.fault = "none") =>
        /\ uLast.err = ""
        /\ (uLast.rec.AcademyName # "" /\ NamedAcademies = {})
              => SavedAthlete.AcademyExternalID = ""
        /\ (uLast.rec.AcademyName # "" /\ NamedAcademies # {})
              => SavedAthlete.AcademyExternalID
                    = uBefore.academies[FirstRow(NamedAcademies)].ExternalID
        /\ uLast.rec.AcademyName = ""
              => SavedAthlete.AcademyExternalID
                    = IF AthleteKeyRows(uBefore.athletes) = {} THEN ""
                      ELSE uBefore.athletes[FirstRow(AthleteKeyRows(uBefore.athletes))]
                               .AcademyExternalID

\* C20's case: the athlete's club is not a persisted academy; the call
\* committed an athlete without an association
Wit_C20 ==
    /\ uLast.op = "athlete" /\ uLast.fault = "none" /\ uLast.err = ""
    /\ uLast.rec.AcademyName = "Ghost" /\ NamedAcademies = {}
    /\ uLast.added > 0
    /\ SavedAthlete.AcademyExternalID = ""

(***************************************************************************)
(* Claims about concurrent upserts (checked under SpecConcurrent)          *)
(***************************************************************************)

\* No two rows of a table hold the same natural key
UniqueKeys ==
    /\ \A i, j \in 1..Len(academiesTable) :
          academiesTable[i].ExternalID = academiesTable[j].ExternalID => i = j
    /\ \A i, j \in 1..Len(eventsTable) :
          eventsTable[i].EventURL = eventsTable[j].EventURL => i = j
    /\ \A i, j \in 1..Len(athletesTable) :
          athletesTable[i].ExternalID = athletesTable[j].ExternalID => i = j
    /\ OneRowPerBracket

\* C18: under every interleaving of two concurrent upserts (SaveAcademy,
\* SaveEvent, saveAthleteFromEvent), also for the same natural key, no table
\* holds two rows with one natural key, and the store is the one the calls
\* that returned nil produce when run one after another in the order of their
\* writes: no committed update is lost.
Thm_C18 == UniqueKeys /\ Store = kSerial

\* C18's case: both goroutines ran saveAthleteFromEvent for athlete 7 and the
\* same bracket, both looked the athlete up before either wrote, and one of
\* them committed
Wit_C18 ==
    /\ \A p \in Procs : kpc[p] = "idle" /\ kCall[p].op = "athlete"
    /\ kCall["g1"].rec.Division = kCall["g2"].rec.Division
    /\ kCall["g1"].rec # kCall["g2"].rec
    /\ kErr["g1"] = "" /\ kErr["g2"] = "database is locked"
    /\ Len(athletesTable) = 1 /\ Len(registrationsTable) = 1

(***************************************************************************)
(* Claims about the batch operations (checked under SpecBatch)             *)
(***************************************************************************)

\* The items of a batch that have a reference to process
BatchDue ==
    IF bOp = "profiles"
    THEN SelectSeq(bAll, LAMBDA r : r.ExternalID # "" \/ r.ProfileURL # "")
    ELSE bAll

\* C21: when a batch operation (ScrapeEvents, ScrapeAcademies,
\* ScrapeEventAthletes, ScrapeAthleteProfiles) has finished its loop, every
\* item of the lists it fetched was handed to the per-item operation, in
\* order, also the items after one that failed, and the count reported
\* equals the number of items whose operation returned nil, which is never
\* more than the number attempted.
Thm_C21 ==
    bpc = "done" /\ bErr = "" =>
        /\ Len(bLog) = Len(BatchDue)
        /\ \A i \in 1..Len(bLog) : bLog[i].item = BatchDue[i]
        /\ bCount = Cardinality({i \in 1..Len(bLog) : bLog[i].err = ""})
        /\ bCount <= Len(bLog)

\* C21's case: a finished batch whose first item failed and whose second
\* item was saved
Wit_C21 ==
    /\ bpc = "done" /\ bErr = ""
    /\ bOp = "profiles"
    /\ Len(bLog) = 2
    /\ bLog[1].err # "" /\ bLog[2].err = ""
    /\ bCount = 1

(***************************************************************************)
(* Claims about the requests of an operation (checked under SpecFetch)     *)
(***************************************************************************)

\* No request of the operation was sent twice
NoRetry == \A i, j \in 1..Len(fLog) : fLog[i].url = fLog[j].url => i = j

\* The failure of the operation's first request is returned
FirstFailureSurfaced == fLog # <<>> /\ fLog[1].failed => fErr # ""

\* The failure of any request of the operation is returned
EveryFailureSurfaced == (\E i \in 1..Len(fLog) : fLog[i].failed) => fErr # ""

\* C22: no request of ScrapeAthleteProfile, ScrapeEventsByCountry,
\* ScrapeEventAthletes or FetchEventDetails is sent twice, and when a request
\* of the operation fails in transport (network error, timeout, status other
\* than 200) the operation returns an error to its caller. (The code returns
\* nil when the match-history walk, the info panels or the CMS blocks fail.)
CE_C22 == NoRetry /\ EveryFailureSurfaced

(***************************************************************************)
(* Claims about the scheduler (checked under SpecSched and SpecSchedFair)  *)
(***************************************************************************)

\* The triggers whose runScrapingJob is past the test and has not returned
Running == {j \in Triggers : spc[j] \in {"run", "defer"}}

\* C23: scheduled runs never overlap: at most one invocation of
\* runScrapingJob is executing ScrapeAll at any time, and an invocation whose
\* test found isRunning true returned without running ScrapeAll (it is
\* skipped: it never runs later), while one that found it false runs.
Thm_C23 ==
    /\ Cardinality({j \in Triggers : spc[j] = "run"}) <= 1
    /\ Cardinality(Running) <= 1
    /\ \A j \in Triggers :
          /\ spc[j] = "skipped" => sSeen[j] /\ sResult[j] = ""
          /\ spc[j] \in {"run", "defer", "done"} => ~sSeen[j]

\* C23's case: a trigger fired while another trigger's run was executing
\* ScrapeAll, and it was skipped
Wit_C23 ==
    \E j, k \in Triggers : spc[j] = "run" /\ spc[k] = "skipped" /\ sSeen[k]

\* C30: isRunning is true exactly while a scheduled run is between its test
\* and its return, a test finds it true only while another run is in
\* progress (so a trigger that fires when no run is in progress starts one),
\* and once ScrapeAll has returned, with nil or with an error, the flag is
\* reset to false: it never stays true forever.
Thm_C30 ==
    /\ [](sIsRunning <=> Running # {})
    /\ [](\A j \in Triggers :
             spc[j] = "branch" /\ sSeen[j] => Running \ {j} # {})
    /\ \A j \in Triggers : (spc[j] = "defer") ~> (spc[j] = "done" /\ ~sIsRunning)

\* C30's case: a run ended with an error, the flag is false again, and a
\* trigger that fired later found it false and is running
Wit_C30 ==
    \E j, k \in Triggers :
        /\ spc[j] = "done" /\ sResult[j] # ""
        /\ spc[k] = "run" /\ ~sSeen[k]

(***************************************************************************)
(* Claims about the end of the match-history walk (checked under           *)
(* SpecWalkFair)                                                           *)
(***************************************************************************)

\* The matches of every fetched page are counted once
WalkCountsOnce == wStats = applyMatches(ZeroStats, wMatches)

\* C24: the match-history walk eventually terminates: once
\* fetchProfileEventStats has entered its loop it returns, having counted the
\* matches of each fetched page exactly once. (The code follows next-page
\* pointers without a limit: a server whose pages keep naming a next page
\* keeps the loop running.)
CE_C24 == [](WalkCountsOnce) /\ ((wpc = "walking") ~> (wpc = "done"))

(***************************************************************************)
(* Claims about the normalisation of event records (checked under          *)
(* SpecEvents)                                                             *)
(***************************************************************************)

IsAbsoluteURL(u) == HasPrefix(u, "http://") \/ HasPrefix(u, "https://")

\* The text columns of an event record are trimmed
TrimmedEvent(event) ==
    \A f \in {"Name", "EventURL", "ImageURL", "City", "Country", "CountryCode",
              "DateText", "DaysText", "Section"} : event[f] = TrimSpace(event[f])

\* An event record in the normalised form
NormalizedEvent(event) ==
    /\ IsAbsoluteURL(event.EventURL)
    /\ event.CountryCode = ToUpper(event.CountryCode)
    /\ TrimmedEvent(event)

\* The records of the markup-selector strategy are normalised
MarkupNormalized ==
    eStrategy = "markup" => \A i \in 1..Len(eEvents) : NormalizedEvent(eEvents[i])

\* C25: whichever strategy produced it (embedded array or markup selectors),
\* every accepted event record has an absolute URL (a relative one resolved
\* against the configured base URL), an upper-case country code and trimmed
\* text fields. (parseEventsFromScript only trims the URL of an embedded
\* record: a relative URL stays relative.)
CE_C25 ==
    eStrategy \in {"embedded", "markup"} =>
        \A i \in 1..Len(eEvents) : NormalizedEvent(eEvents[i])

(***************************************************************************)
(* Claims about the record ScrapeAthleteProfile commits (checked under     *)
(* SpecProfile)                                                            *)
(***************************************************************************)

\* A present total is at least the sum of the present sub-categories of its
\* side
ConsistentTotals(data) ==
    /\ ~data.TotalWins.null => data.TotalWins.value >= WinsBreakdown(data)
    /\ ~data.TotalLosses.null => data.TotalLosses.value >= LossesBreakdown(data)

\* C26: the record ScrapeAthleteProfile commits (page-summary extraction,
\* backfill, then merge with the walk totals) is consistent: a present total
\* of wins is at least the sum of the present wins sub-categories, and
\* likewise for losses. (The merge overrides each field on its own, so a walk
\* total can stand next to sub-categories kept from the page summary.)
CE_C26 == qpc = "update" => ConsistentTotals(qData)

\* C27: when the match-history walk fails, the totals it had accumulated on
\* earlier pages are not merged: the record is the page-summary extraction
\* alone, and ScrapeAthleteProfile still goes on to updateAthleteProfile with
\* that record.
Thm_C27 ==
    /\ [](qStep = "walkfail" =>
             /\ qWalk.err # ""
             /\ qData = parseAthleteProfile(qPage)
             /\ qpc = "update")
    /\ [][qStep = "walkfail" =>
             \E fault \in ProfileFaults :
                 athletesTable' =
                     updateAthleteProfile(athletesTable, qID, parseAthleteProfile(qPage),
                                          fault, clock).athletes]_vars

\* C27's case: the walk failed after it had counted a win by submission that
\* the page summary does not show; the record for the persisted athlete is
\* without it and updateAthleteProfile is the next step
Wit_C27 ==
    /\ qStep = "walkfail"
    /\ qWalk.err # ""
    /\ qWalk.stats.WinsBySubmission > 0
    /\ qData.WinsBySubmission.null
    /\ qData.TotalWins.null
    /\ ~qData.TotalLosses.null
    /\ qpc = "update"
    /\ \E i \in 1..Len(athletesTable) : athletesTable[i].ExternalID = qID

\* The fields of the reconciled record that are present
PresentFields(data) == {f \in DOMAIN data : ~data[f].null}

\* The row of the athlete named externalID (0: there is none)
AthleteRow(athletes, externalID) ==
    FirstRow({i \in 1..Len(athletes) : athletes[i].ExternalID = externalID})

\* One updateAthleteProfile call changes, of the row it found, at most the
\* columns in present and those in stamps; it touches no other row and adds
\* none; without a present field it writes nothing; for an external id
\* without a row it returns an error and writes nothing
UpdateWritesOnly(stamps) ==
    (qpc = "update" /\ qpc' = "idle") =>
        LET found == AthleteRow(athletesTable, qID) IN
        /\ Len(athletesTable') = Len(athletesTable)
        /\ \A i \in 1..Len(athletesTable) :
              \A f \in DOMAIN athletesTable[i] :
                  athletesTable'[i][f] # athletesTable[i][f]
                      => i = found /\ f \in PresentFields(qData) \cup stamps
        /\ PresentFields(qData) = {} => athletesTable' = athletesTable
        /\ found = 0 => qErr' # "" /\ athletesTable' = athletesTable

\* C28 as stated: updateAthleteProfile changes only the persisted columns
\* whose field is present in the reconciled record, plus scraped_at; every
\* other column keeps its stored value; with no present field nothing is
\* written; for an external id with no persisted athlete it returns an error
\* and leaves the store unchanged. (The write also sets updated_at.)
CE_C28 == [][UpdateWritesOnly({"ScrapedAt"})]_vars

\* C28, amended: updateAthleteProfile changes only the persisted columns
\* whose field is present in the reconciled record, plus scraped_at and
\* updated_at; every other column keeps its stored value; with no present
\* field nothing is written; for an external id with no persisted athlete it
\* returns an error and leaves the store unchanged.
Thm_C28 == [][UpdateWritesOnly({"ScrapedAt", "UpdatedAt"})]_vars

\* C28's case: a second profile scrape wrote the total of losses onto an
\* athlete whose total of wins, absent from the record, stays as the first
\* scrape stored it
Wit_C28 ==
    /\ qStep = "update"
    /\ qRuns = 2
    /\ qData.TotalWins.null
    /\ ProfiledAthlete.TotalWins # 0
    /\ ~qData.TotalLosses.null
    /\ qBefore.TotalLosses # qData.TotalLosses.value
    /\ ProfiledAthlete.TotalLosses = qData.TotalLosses.value
    /\ ProfiledAthlete.ScrapedAt = clock - 1

(***************************************************************************)
(* Claims about event re-scrapes after profile enrichments (checked under  *)
(* SpecFetch)                                                              *)
(***************************************************************************)

\* C29: upserting an already-persisted athlete through saveAthleteFromEvent
\* leaves that athlete's belt rank and ten win/loss statistics columns as
\* stored: in any sequence of profile enrichments and event re-scrapes, an
\* event re-scrape erases no statistics a profile enrichment wrote.
Thm_C29 ==
    [][(fCalls' = fCalls + 1 /\ fOp' = "ScrapeEventAthletes") =>
          \A i \in 1..Len(athletesTable) :
              /\ Len(athletesTable') >= i
              /\ athletesTable'[i].ExternalID = athletesTable[i].ExternalID
              /\ athletesTable'[i].BeltRank = athletesTable[i].BeltRank
              /\ athleteStats(athletesTable'[i]) = athleteStats(athletesTable[i])]_vars

\* C29's case: an event scrape created the athlete, a profile enrichment
\* wrote a belt rank and statistics, and a later event re-scrape saved the
\* athlete again
Wit_C29 ==
    /\ fOp = "ScrapeEventAthletes"
    /\ fErr = ""
    /\ \E i \in 1..Len(athletesTable) :
          /\ athletesTable[i].ScrapedAt = clock - 1
          /\ athletesTable[i].CreatedAt < clock - 2
          /\ athletesTable[i].BeltRank # ""
          /\ athletesTable[i].TotalWins > 0
          /\ athletesTable[i].WinsBySubmission > 0

====
